---------------------------- MODULE Spec2Model ----------------------------
(***************************************************************************)
(* Corneal-topography pipeline of Rust_projects:                           *)
(*   S1  extract_csv_data_multi / extract_csv_data   (section extractor)   *)
(*   S2  csv_duplicate_fuzzy                         (sample deduper)      *)
(*   S3  grid_fix_multi                              (grid assembler)      *)
(* Each program is a specification of its own over the variables it uses;  *)
(* the other programs' variables stay at their initial value.              *)
(*                                                                         *)
(* Conventions.                                                            *)
(*  - f64 values are fixed-point integers with Scale units per 1.0.        *)
(*  - A CSV field is a record [s, v]: Txt(s) for text, Num(v) for a        *)
(*    number, so that every field of every line has the same shape.        *)
(*  - A string of the extractor's input is a sequence of tokens (words,    *)
(*    blanks, brackets); trimming, substring search and replacement are    *)
(*    computed on the tokens.                                              *)
(***************************************************************************)
EXTENDS Integers, Sequences, FiniteSets, TLC

VARIABLES
    \* ---- S3, one sample (process_patient_data, step by step)
    param_files,    \* the eight parameter files of the sample on disk
    pc,             \* position of process_patient_data
    parameters,     \* the flat vectors read (name -> Seq of f64)
    stats_map,      \* name -> Stats
    rows,           \* the collect buffer of the parallel row generation
    combined,       \* <sample>_combined.csv on disk
    \* ---- S3, the batch (main)
    batch_files,    \* sample -> its eight parameter files
    batch_pc,       \* sample -> idle | running | create | gen | write | done | err
                    \*           | panic | skipped
    batch_read,     \* sample -> the vectors and statistics its worker has read
    batch_out,      \* sample -> <sample>_combined.csv
    full,           \* try_for_each's short-circuit flag
    \* ---- S1, the raw directory both extractors read
    raw_files,      \* directory entry -> the lines of the file
    \* ---- S1, extract_csv_data_multi (process_directory)
    s1_pc,          \* csv entry -> running | ok | panic
    next_marker,    \* csv entry -> index into MARKERS_AND_SKIPS of the next marker
    section_files,  \* output path -> section file
    skipped,        \* the (entry, marker index) reported as skipped
    processed_count,
    failed_count,
    run,            \* which run of the extractor over the directory this is
    first_run,      \* the section files as the first run left them
    \* ---- S1, extract_csv_data (main, process_csv_file)
    x_pc,           \* csv entry -> todo | ok | failed
    marker_pos,     \* csv entry -> what find_marker_position returned (-1: Err)
    conv_files,     \* file name -> output file in conv/
    processed_files,
    failed_files,
    \* ---- S2, csv_duplicate_fuzzy (main)
    listing,            \* the input directory as read_dir lists it
    disk,               \* the file names present in the input directory
    s2_pc,              \* scan | report | remove | unlink | done | err | panic
    duplicate_reports,  \* what find_duplicates returned
    audit,              \* the audit CSV
    remove_idx,         \* remove_duplicate_files' position in the reports
    removing,           \* the names printed as "Removing file: ..."
    \* ---- S4: the combined files both modes read
    in_files,
    \* ---- S4 filter, csv_filter (main)
    filter_pc,          \* per entry: todo | ok | err
    filter_main,        \* running | ok | err: main's own outcome
    limited,            \* the files of the output directory
    \* ---- S4 split, csv_to_8 (main)
    split_pc,           \* per entry: todo | ok | err
    radial,             \* the files radial_<k>/<name>
    \* ---- library_manager, one Book and the calls made on it
    book,               \* [is_borrowed, borrow_count]
    last_call,          \* the last call on the book and whether it returned Ok
    successful_borrows  \* how many calls of borrow have returned Ok

varsS3 == <<param_files, pc, parameters, stats_map, rows, combined>>
varsBatch == <<batch_files, batch_pc, batch_read, batch_out, full>>
varsS1 == <<s1_pc, next_marker, section_files, skipped, processed_count, failed_count,
            run, first_run>>
varsX == <<x_pc, marker_pos, conv_files, processed_files, failed_files>>
varsS2 == <<listing, disk, s2_pc, duplicate_reports, audit, remove_idx, removing>>
varsFilter == <<filter_pc, filter_main, limited>>
varsSplit == <<split_pc, radial>>
varsS4 == <<in_files, varsFilter, varsSplit>>
varsBook == <<book, last_call, successful_borrows>>
vars == <<varsS3, varsBatch, raw_files, varsS1, varsX, varsS2, varsS4, varsBook>>

\* What the actions of one program leave alone: the other programs
restS3 == <<varsBatch, raw_files, varsS1, varsX, varsS2, varsS4, varsBook>>
restBatch == <<varsS3, raw_files, varsS1, varsX, varsS2, varsS4, varsBook>>
restS1 == <<varsS3, varsBatch, varsX, varsS2, varsS4, varsBook>>
restX == <<varsS3, varsBatch, varsS1, varsS2, varsS4, varsBook>>
restS2 == <<varsS3, varsBatch, raw_files, varsS1, varsX, varsS4, varsBook>>
restFilter == <<varsS3, varsBatch, raw_files, varsS1, varsX, varsS2, varsSplit, varsBook>>
restBook == <<varsS3, varsBatch, raw_files, varsS1, varsX, varsS2, varsS4>>
restSplit == <<varsS3, varsBatch, raw_files, varsS1, varsX, varsS2, varsFilter, varsBook>>

---------------------------------------------------------------------------
(* Generic helpers *)

Range(s) == {s[i] : i \in 1..Len(s)}

Txt(s) == [s |-> s, v |-> 0]
Num(v) == [s |-> "", v |-> v]

\* f64 as fixed point: Scale units per 1.0
Scale == 10 * 10 * 10
Fx(n) == n * Scale
Mul(a, b) == (a * b) \div Scale
Div(a, b) == (a * Scale) \div b
\* f64::NAN as a field of the output
NaN == Txt("NaN")


---------------------------------------------------------------------------
(* S3: grid_fix_multi, numeric primitives *)

\* std::f64::consts::PI (fourier_bessel_transform's alpha, to_radians)
PI == 3142

\* The grid of process_patient_data. The program's grid is 256 x 32; the
\* model runs the same code on a grid of num_meridians x num_radials.
num_meridians == 2
num_radials == 3
GridSize == num_meridians * num_radials

\* Taylor series shared by f64::sin and f64::cos: term, then
\* -term*x^2/((k+1)(k+2)), ... up to the power MaxPower.
MaxPower == 15
RECURSIVE Series(_, _, _)
Series(term, x2, k) ==
    IF k > MaxPower THEN 0
    ELSE term + Series((0 - Mul(term, x2)) \div ((k + 1) * (k + 2)), x2, k + 2)

\* The argument brought into [-PI, PI] (arguments are in [0, 2*PI]).
Reduce(x) == IF x > PI THEN x - 2 * PI ELSE x

\* f64::sin, f64::cos
Sin(x) == LET y == Reduce(x) IN Series(y, Mul(y, y), 1)
Cos(x) == LET y == Reduce(x) IN Series(Scale, Mul(y, y), 0)

\* f64::to_radians
ToRadians(deg) == (deg * PI) \div (180 * Scale)

\* f64::sqrt on a non-negative value: the floor of the root, by bisection
RECURSIVE Bisect(_, _, _)
Bisect(v, lo, hi) ==
    IF hi - lo <= 1 THEN lo
    ELSE LET mid == (lo + hi) \div 2
         IN IF mid * mid <= v THEN Bisect(v, mid, hi) ELSE Bisect(v, lo, mid)
\* of a value held in units of 1/Scale^2, the root in units of 1/Scale
Sqrt(x) == Bisect(x, 0, 40000)

\* bessel_j0: J0(0) = 1, otherwise cos(sin(x) / x)
bessel_j0(x) ==
    IF x = 0 THEN Scale
    ELSE Cos(Div(Sin(x), x))

\* fourier_bessel_transform(radial_index, num_radials)
fourier_bessel_transform(radial_index, n_radials) ==
    LET r_max == Scale
        r == Div(Fx(radial_index), Fx(n_radials) - Scale)
        alpha == PI
        transformed_r == Div(Mul(r, alpha), r_max)
    IN bessel_j0(transformed_r)

\* calculate_stats, line 41: fold(0.0, |acc, x| acc + x / count)
RECURSIVE FoldMean(_, _, _)
FoldMean(values, i, count) ==
    IF i > Len(values) THEN 0
    ELSE Div(values[i], count) + FoldMean(values, i + 1, count)

\* calculate_stats, line 49: fold(0.0, |acc, x| acc + (x - mean)^2 / (count - 1)).
\* f64 keeps the square of a deviation however small it is, so the variance is
\* held in units of 1/Scale^2 (the exact square of a deviation in units of
\* 1/Scale) and each quotient is rounded to the nearest unit; n is the number
\* of values.
RECURSIVE FoldVarianceByCount(_, _, _, _)
FoldVarianceByCount(values, i, mean, n) ==
    IF i > Len(values) THEN 0
    ELSE LET diff == values[i] - mean
         IN (2 * diff * diff + n) \div (2 * n)
            + FoldVarianceByCount(values, i + 1, mean, n)
RECURSIVE FoldVariance(_, _, _, _)
FoldVariance(values, i, mean, n) ==
    IF i > Len(values) THEN 0
    ELSE LET diff == values[i] - mean
         IN (2 * diff * diff + (n - 1)) \div (2 * (n - 1))
            + FoldVariance(values, i + 1, mean, n)

\* calculate_stats: the mean, and the standard deviation from the variance
\* with N - 1 in the denominator. The values are finite (read_parameter_file
\* lets no other through) and small, so the NaN and non-finite exits are not
\* taken.
calculate_stats(values) ==
    IF Len(values) = 0 THEN [ok |-> TRUE, mean |-> 0, std_dev |-> 0]
    ELSE LET count == Fx(Len(values))
             mean == FoldMean(values, 1, count)
             variance == IF Len(values) > 1
                         THEN FoldVariance(values, 1, mean, Len(values))
                         ELSE 0
         IN IF variance < 0
            THEN [ok |-> FALSE, mean |-> 0, std_dev |-> 0]
            ELSE [ok |-> TRUE, mean |-> mean, std_dev |-> Sqrt(variance)]

\* scale_value (every operand is finite in the model)
scale_value(value, stats) ==
    IF stats.std_dev <= 0 THEN 0
    ELSE Div(value - stats.mean, stats.std_dev)

---------------------------------------------------------------------------
(* S3: grid_fix_multi, files and rows *)

\* process_patient_data's parameter list, in its order
PARAMETERS == <<"Axial_Anterior", "Axial_Posterior", "Elevation_Anterior",
                "Elevation_Posterior", "Axial_Keratometric", "Height_Anterior",
                "Height_Posterior", "Pachymetry">>
ParamNames == Range(PARAMETERS)
ParamIndex(name) == CHOOSE i \in 1..Len(PARAMETERS) : PARAMETERS[i] = name

\* A cell of a parameter file: a finite number, or text that f64::from_str
\* reads as NaN / inf, or text it refuses.
NumCell(n) == [k |-> "num", v |-> n]
NanCell == [k |-> "nan", v |-> 0]
InfCell == [k |-> "inf", v |-> 0]
BadCell == [k |-> "bad", v |-> 0]

\* A file on disk: absent, or its records.
NoFile == [exists |-> FALSE, lines |-> <<>>]
File(lines) == [exists |-> TRUE, lines |-> lines]

\* read_parameter_file: the cells of all records, flattened; an error when
\* the file cannot be opened, a record's length differs from the first's
\* (the reader is not flexible), a cell does not parse or is not finite. The
\* records are read one after the other and the cells of a record from left
\* to right: the first record that fails decides the error, by its length
\* before its cells.
RECURSIVE Flatten(_, _)
Flatten(lines, i) ==
    IF i > Len(lines) THEN <<>> ELSE lines[i] \o Flatten(lines, i + 1)

read_parameter_file(file) ==
    LET cells == Flatten(file.lines, 1)
        Ragged(i) == Len(file.lines[i]) # Len(file.lines[1])
        FailingCells(i) == {j \in 1..Len(file.lines[i]) : file.lines[i][j].k # "num"}
        failing == {i \in 1..Len(file.lines) : Ragged(i) \/ FailingCells(i) # {}}
    IN IF ~file.exists THEN [ok |-> FALSE, err |-> "open", values |-> <<>>]
       ELSE IF failing # {}
            THEN LET i == CHOOSE i \in failing : \A k \in failing : i <= k
                     j == CHOOSE j \in FailingCells(i) : \A k \in FailingCells(i) : j <= k
                 IN [ok |-> FALSE,
                     err |-> IF Ragged(i) THEN "csv"
                             ELSE IF file.lines[i][j].k = "bad" THEN "parse"
                             ELSE "non-finite",
                     values |-> <<>>]
       ELSE [ok |-> TRUE, err |-> "",
             values |-> [i \in 1..Len(cells) |-> Fx(cells[i].v)]]

\* Lines 118-133: the parameters are read and their statistics taken one
\* after the other; the first error ends process_patient_data.
RECURSIVE ReadAll(_, _)
ReadAll(files, i) ==
    IF i > Len(PARAMETERS) THEN [ok |-> TRUE, data |-> <<>>, stats |-> <<>>]
    ELSE LET rd == read_parameter_file(files[PARAMETERS[i]])
             st == calculate_stats(rd.values)
             rest == ReadAll(files, i + 1)
         IN IF ~rd.ok \/ ~st.ok THEN [ok |-> FALSE, data |-> <<>>, stats |-> <<>>]
            ELSE IF ~rest.ok THEN rest
            ELSE [ok |-> TRUE,
                  data |-> <<rd.values>> \o rest.data,
                  stats |-> <<[mean |-> st.mean, std_dev |-> st.std_dev]>> \o rest.stats]

\* Lines 140-157: the header
GeometryHeader == <<"Meridian_Index", "Radial_Index", "Meridian_Angle_Deg",
                    "Meridian_Angle_Rad", "Normalized_Radius", "Transformed_Radius",
                    "Cos_Theta", "Sin_Theta", "X_Coordinate", "Y_Coordinate",
                    "Alpha_Angle">>
\* format!("{}_Value", name), format!("{}_Scaled", name): the name and the suffix
ValueColumn(name) == [s |-> name, v |-> 1]
ScaledColumn(name) == [s |-> name, v |-> 2]
RECURSIVE ParamHeader(_)
ParamHeader(i) ==
    IF i > Len(PARAMETERS) THEN <<>>
    ELSE <<ValueColumn(PARAMETERS[i]), ScaledColumn(PARAMETERS[i])>> \o ParamHeader(i + 1)
Header == [i \in 1..Len(GeometryHeader) |-> Txt(GeometryHeader[i])] \o ParamHeader(1)

\* The index of the cell in a vector laid out radial by radial
TransposedIndex(meridian, radial_index) == radial_index * num_meridians + meridian
\* Line 171: data_index (0-based) of the cell (meridian, radial_index), both 0-based
data_index(meridian, radial_index) == meridian * num_radials + radial_index

\* data[data_index] panics when the index is out of the vector's bounds
OutOfBounds(data, meridian, radial_index) ==
    \E p \in 1..Len(PARAMETERS) : data_index(meridian, radial_index) >= Len(data[p])

\* The two fields of every parameter the other way round
RECURSIVE ScaledBeforeValue(_, _, _, _)
ScaledBeforeValue(data, stats, idx, p) ==
    IF p > Len(PARAMETERS) THEN <<>>
    ELSE LET value == data[p][idx + 1]
         IN <<Num(scale_value(value, stats[p])), Num(value)>>
            \o ScaledBeforeValue(data, stats, idx, p + 1)
\* Lines 224-231: value and scaled value of every parameter, in order
RECURSIVE ParamFields(_, _, _, _)
ParamFields(data, stats, idx, p) ==
    IF p > Len(PARAMETERS) THEN <<>>
    ELSE LET value == data[p][idx + 1]
         IN <<Num(value), Num(scale_value(value, stats[p]))>>
            \o ParamFields(data, stats, idx, p + 1)

\* Lines 202-207: alpha_angle, NaN for a zero height difference
AlphaZeroForFlat(pachymetry, height_diff) ==
    IF height_diff # 0 THEN Num(Div(pachymetry, height_diff)) ELSE Num(0)
AlphaAngle(pachymetry, height_diff) ==
    IF height_diff # 0 THEN Num(Div(pachymetry, height_diff)) ELSE NaN

\* Lines 168-233: the row of (meridian, radial_index), both 0-based
Row(data, stats, meridian, radial_index) ==
    LET radial_index_1_based == radial_index + 1
        meridian_index_1_based == meridian + 1
        idx == data_index(meridian, radial_index)
        meridian_angle_deg == Mul(Fx(meridian_index_1_based) - Scale,
                                  Div(Fx(360), Fx(num_meridians)))
        meridian_angle_rad == ToRadians(meridian_angle_deg)
        normalized_radius == Div(Fx(radial_index_1_based) - Scale,
                                 Fx(num_radials) - Scale)
        transformed_radius == fourier_bessel_transform(radial_index_1_based, num_radials)
        cos_theta == Cos(meridian_angle_rad)
        sin_theta == Sin(meridian_angle_rad)
        x_coordinate == Mul(transformed_radius, cos_theta)
        y_coordinate == Mul(transformed_radius, sin_theta)
        pachymetry == data[ParamIndex("Pachymetry")][idx + 1]
        height_posterior == data[ParamIndex("Height_Posterior")][idx + 1]
        height_anterior == data[ParamIndex("Height_Anterior")][idx + 1]
        height_diff == height_posterior - height_anterior
        alpha_angle == AlphaAngle(pachymetry, height_diff)
    IN <<Num(meridian_index_1_based), Num(radial_index_1_based),
         Num(meridian_angle_deg), Num(meridian_angle_rad),
         Num(normalized_radius), Num(transformed_radius),
         Num(cos_theta), Num(sin_theta),
         Num(x_coordinate), Num(y_coordinate), alpha_angle>>
       \o ParamFields(data, stats, idx, 1)

---------------------------------------------------------------------------
(* S3: the inputs the model runs on *)

\* The value of parameter number p at flat index i (0-based): small numbers
\* that differ from parameter to parameter and from cell to cell, with
\* Height_Posterior = Height_Anterior at i = 0. Two parameters are constant
\* over the grid: Axial_Posterior (p = 2) holds a value whose quotient by the
\* count is exact (as 500 / 8192 is in f64), Axial_Keratometric (p = 5) one
\* whose quotient is rounded (as 0.1 / 8192 is in f64).
Value(p, i) == IF p = 5 THEN 2 ELSE IF p = 2 THEN GridSize ELSE (p * i) % 9

\* The section file of parameter p as S1 leaves it: nrows records of
\* num_radials cells, record m holding the flat indices m*num_radials ...
Matrix(p, nrows) ==
    [m \in 1..nrows |->
        [r \in 1..num_radials |-> NumCell(Value(p, (m - 1) * num_radials + (r - 1)))]]

Defects == {"none", "missing", "short", "long", "single", "empty", "ragged", "nan",
            "inf", "bad", "bad-ragged"}

\* The file of parameter p with the given defect
ParamFile(p, defect) ==
    LET good == Matrix(p, num_meridians)
    IN CASE defect = "none" -> File(good)
         [] defect = "missing" -> NoFile
         [] defect = "short" -> File(Matrix(p, num_meridians - 1))
         [] defect = "long" -> File(Matrix(p, num_meridians + 1))
         [] defect = "single" -> File(<< <<NumCell(Value(p, 1) + 1)>> >>)
         [] defect = "empty" -> File(<<>>)
         [] defect = "ragged" ->
                File([good EXCEPT ![num_meridians] = SubSeq(@, 1, num_radials - 1)])
         [] defect = "nan" -> File([good EXCEPT ![1][2] = NanCell])
         [] defect = "inf" -> File([good EXCEPT ![num_meridians][1] = InfCell])
         [] defect = "bad" -> File([good EXCEPT ![1][1] = BadCell])
         [] defect = "bad-ragged" ->
                File([good EXCEPT ![1][1] = BadCell,
                                  ![num_meridians] = SubSeq(@, 1, num_radials - 1)])

\* The eight files of a sample of which parameter `bad` has the defect
SampleFiles(bad, defect) ==
    [name \in ParamNames |->
        ParamFile(ParamIndex(name), IF name = bad THEN defect ELSE "none")]

\* What the spec requires of a sample's files (3, Parameter table): every
\* parameter has exactly GridSize finite values.
WellFormed(files) ==
    \A name \in ParamNames :
        /\ files[name].exists
        /\ Len(Flatten(files[name].lines, 1)) = GridSize
        /\ \A i \in 1..Len(files[name].lines) :
             \A j \in 1..Len(files[name].lines[i]) : files[name].lines[i][j].k = "num"

\* A parameter whose flat vector has not exactly GridSize values
WrongLength(files) ==
    \E name \in ParamNames :
        files[name].exists /\ Len(Flatten(files[name].lines, 1)) # GridSize

\* A parameter file with a cell that reads as NaN or an infinity
NonFinite(files) ==
    \E name \in ParamNames :
        \E i \in 1..Len(files[name].lines) :
            \E j \in 1..Len(files[name].lines[i]) :
                files[name].lines[i][j].k \in {"nan", "inf"}

---------------------------------------------------------------------------
(* S3: process_patient_data, step by step for one sample *)

NoRow == <<>>

\* collect() of the parallel iterator: the row of position idx lands at
\* position idx, whenever its task finishes
CollectByArrival(buf, idx, row) ==
    LET free == {i \in DOMAIN buf : buf[i] = NoRow}
    IN [buf EXCEPT ![CHOOSE i \in free : \A j \in free : i <= j] = row]
Collect(buf, idx, row) == [buf EXCEPT ![idx] = row]

InitS3 ==
    /\ \E bad \in ParamNames, defect \in Defects :
          param_files = SampleFiles(bad, defect)
    /\ pc = "read"
    /\ parameters = <<>>
    /\ stats_map = <<>>
    /\ rows = [i \in 1..GridSize |-> NoRow]
    /\ combined = NoFile

\* Lines 118-133
ReadParameters ==
    /\ pc = "read"
    /\ LET r == ReadAll(param_files, 1)
       IN IF r.ok
          THEN /\ parameters' = r.data
               /\ stats_map' = r.stats
               /\ pc' = "create"
          ELSE /\ pc' = "err"
               /\ UNCHANGED <<parameters, stats_map>>
    /\ UNCHANGED <<restS3, param_files, rows, combined>>

\* Lines 135-159: the output file is created and the header written
CreateOutput ==
    /\ pc = "create"
    /\ combined' = File(<<Header>>)
    /\ pc' = "gen"
    /\ UNCHANGED <<restS3, param_files, parameters, stats_map, rows>>

\* Lines 164-235: one task of the parallel row generation. An index out of
\* a vector's bounds panics; the panic unwinds process_patient_data, and
\* the writer, dropped, leaves what it was given: the header.
GenRow(meridian, radial_index) ==
    /\ pc = "gen"
    /\ rows[data_index(meridian, radial_index) + 1] = NoRow
    /\ IF OutOfBounds(parameters, meridian, radial_index)
       THEN /\ pc' = "panic"
            /\ rows' = rows
       ELSE /\ rows' = Collect(rows, data_index(meridian, radial_index) + 1,
                               Row(parameters, stats_map, meridian, radial_index))
            /\ pc' = pc
    /\ UNCHANGED <<restS3, param_files, parameters, stats_map, combined>>

\* Line 235: collect() returns when every task has
Collected ==
    /\ pc = "gen"
    /\ \A i \in 1..GridSize : rows[i] # NoRow
    /\ pc' = "write"
    /\ UNCHANGED <<restS3, param_files, parameters, stats_map, rows, combined>>

\* Lines 237-239: the rows are written one after the other
WriteRow ==
    /\ pc = "write"
    /\ Len(combined.lines) <= GridSize
    /\ combined' = File(Append(combined.lines, rows[Len(combined.lines)]))
    /\ UNCHANGED <<restS3, param_files, pc, parameters, stats_map, rows>>

\* Lines 241-242
Finish ==
    /\ pc = "write"
    /\ Len(combined.lines) = GridSize + 1
    /\ pc' = "done"
    /\ UNCHANGED <<restS3, param_files, parameters, stats_map, rows, combined>>

NextS3 ==
    \/ ReadParameters
    \/ CreateOutput
    \/ \E meridian \in 0..(num_meridians - 1), radial_index \in 0..(num_radials - 1) :
          GenRow(meridian, radial_index)
    \/ Collected
    \/ WriteRow
    \/ Finish

---------------------------------------------------------------------------
(* S3: main, the batch over the samples *)

Samples == {"s1", "s2", "s3"}

\* main, lines 256-270: the entries of the "Elevation Anterior" directory and
\* the patient id of an entry, its name between "Elevation_Anterior_" and
\* ".csv"; a file name is the sequence of these parts
SampleEntries ==
    {<<"Elevation_Anterior_", s, ".csv">> : s \in Samples}
    \cup {<<"Pachymetry_", "s1", ".csv">>, <<"Elevation_Anterior_", "s1", ".txt">>}
patient_id(file_name) ==
    IF file_name[Len(file_name)] = ".csv" /\ file_name[1] = "Elevation_Anterior_"
    THEN [some |-> TRUE, id |-> SubSeq(file_name, 2, Len(file_name) - 1)]
    ELSE [some |-> FALSE, id |-> <<>>]
patient_ids == {patient_id(e).id : e \in {x \in SampleEntries : patient_id(x).some}}
\* Lines 135-138: the path of the combined file in the output directory
output_path(id) == id \o <<"_combined", ".csv">>

BatchInputs ==
    {SampleFiles("Pachymetry", "none"),
     SampleFiles("Pachymetry", "missing"),
     SampleFiles("Height_Anterior", "short"),
     SampleFiles("Axial_Anterior", "bad")}

InitBatch ==
    /\ batch_files \in [Samples -> BatchInputs]
    /\ batch_pc = [s \in Samples |-> "idle"]
    /\ batch_read = [s \in Samples |-> [data |-> <<>>, stats |-> <<>>]]
    /\ batch_out = [s \in Samples |-> NoFile]
    /\ full = FALSE

\* Lines 277-281: try_for_each hands a sample to a worker unless an earlier
\* one has returned Err
StartSample(s) ==
    /\ batch_pc[s] = "idle"
    /\ ~full
    /\ batch_pc' = [batch_pc EXCEPT ![s] = "running"]
    /\ UNCHANGED <<restBatch, batch_files, batch_read, batch_out, full>>

\* A sample not yet started is dropped once try_for_each is full; after a
\* panic the rest of the panicking worker's share is dropped with it.
SkipSample(s) ==
    /\ batch_pc[s] = "idle"
    /\ full \/ \E o \in Samples : batch_pc[o] = "panic"
    /\ batch_pc' = [batch_pc EXCEPT ![s] = "skipped"]
    /\ UNCHANGED <<restBatch, batch_files, batch_read, batch_out, full>>

\* The worker runs process_patient_data step by step, and the workers of
\* the other samples take their steps in between.
\* Lines 118-133: the parameters are read; Err fills try_for_each
ReadSample(s) ==
    /\ batch_pc[s] = "running"
    /\ LET r == ReadAll(batch_files[s], 1)
       IN /\ batch_pc' = [batch_pc EXCEPT ![s] = IF r.ok THEN "create" ELSE "err"]
          /\ batch_read' = IF r.ok
                           THEN [batch_read EXCEPT ![s] = [data |-> r.data, stats |-> r.stats]]
                           ELSE batch_read
          /\ full' = (full \/ ~r.ok)
    /\ UNCHANGED <<restBatch, batch_files, batch_out>>

\* Lines 135-159: the output file is created and the header written
CreateSampleOutput(s) ==
    /\ batch_pc[s] = "create"
    /\ batch_out' = [batch_out EXCEPT ![s] = File(<<Header>>)]
    /\ batch_pc' = [batch_pc EXCEPT ![s] = "gen"]
    /\ UNCHANGED <<restBatch, batch_files, batch_read, full>>

\* Lines 164-235: the worker waits in collect() for the rows of the nested
\* parallel iterator; a task that panics unwinds process_patient_data
CollectSample(s) ==
    /\ batch_pc[s] = "gen"
    /\ batch_pc' = [batch_pc EXCEPT ![s] =
          IF \E m \in 0..(num_meridians - 1), ri \in 0..(num_radials - 1) :
                OutOfBounds(batch_read[s].data, m, ri)
          THEN "panic" ELSE "write"]
    /\ UNCHANGED <<restBatch, batch_files, batch_read, batch_out, full>>

\* Lines 237-239: the rows are written one after the other
WriteSampleRow(s) ==
    /\ batch_pc[s] = "write"
    /\ Len(batch_out[s].lines) <= GridSize
    /\ LET r == batch_read[s]
           idx == Len(batch_out[s].lines) - 1
       IN batch_out' = [batch_out EXCEPT ![s] =
              File(Append(@.lines,
                          Row(r.data, r.stats, idx \div num_radials, idx % num_radials)))]
    /\ UNCHANGED <<restBatch, batch_files, batch_pc, batch_read, full>>

\* Lines 241-242: process_patient_data returns Ok
FinishSample(s) ==
    /\ batch_pc[s] = "write"
    /\ Len(batch_out[s].lines) = GridSize + 1
    /\ batch_pc' = [batch_pc EXCEPT ![s] = "done"]
    /\ UNCHANGED <<restBatch, batch_files, batch_read, batch_out, full>>

NextBatch ==
    \/ \E s \in Samples : StartSample(s)
    \/ \E s \in Samples : SkipSample(s)
    \/ \E s \in Samples : ReadSample(s)
    \/ \E s \in Samples : CreateSampleOutput(s)
    \/ \E s \in Samples : CollectSample(s)
    \/ \E s \in Samples : WriteSampleRow(s)
    \/ \E s \in Samples : FinishSample(s)

BatchDone == \A s \in Samples : batch_pc[s] \in {"done", "err", "panic", "skipped"}

---------------------------------------------------------------------------
(* S1: strings, lines and records of a raw instrument file *)

\* A string is a sequence of tokens: words, blanks, brackets, underscores.
\* str::trim
RECURSIVE TrimStart(_)
TrimStart(s) ==
    IF Len(s) > 0 /\ s[1] = " " THEN TrimStart(Tail(s)) ELSE s
RECURSIVE TrimEnd(_)
TrimEnd(s) ==
    IF Len(s) > 0 /\ s[Len(s)] = " " THEN TrimEnd(SubSeq(s, 1, Len(s) - 1)) ELSE s
Trim(s) == TrimEnd(TrimStart(s))

\* str::trim_matches(&['[', ']'][..])
RECURSIVE TrimMatchesStart(_, _)
TrimMatchesStart(s, chars) ==
    IF Len(s) > 0 /\ s[1] \in chars THEN TrimMatchesStart(Tail(s), chars) ELSE s
RECURSIVE TrimMatchesEnd(_, _)
TrimMatchesEnd(s, chars) ==
    IF Len(s) > 0 /\ s[Len(s)] \in chars
    THEN TrimMatchesEnd(SubSeq(s, 1, Len(s) - 1), chars)
    ELSE s
TrimMatches(s, chars) == TrimMatchesEnd(TrimMatchesStart(s, chars), chars)

\* str::replace(' ', "_")
Replace(s, from, to) == [i \in 1..Len(s) |-> IF s[i] = from THEN to ELSE s[i]]

\* str::contains
Contains(hay, needle) ==
    \E i \in 0..(Len(hay) - Len(needle)) : SubSeq(hay, i + 1, i + Len(needle)) = needle

\* The text of a line as BufRead::lines gives it: its cells joined by commas
RECURSIVE LineText(_)
LineText(cells) ==
    IF Len(cells) = 0 THEN <<>>
    ELSE IF Len(cells) = 1 THEN cells[1]
    ELSE cells[1] \o <<",">> \o LineText(Tail(cells))

\* The records a csv reader (flexible, no headers) yields: a line without
\* any cell is an empty line, which the reader passes over.
RECURSIVE Records(_)
Records(lines) ==
    IF Len(lines) = 0 THEN <<>>
    ELSE IF Len(lines[1]) = 0 THEN Records(Tail(lines))
    ELSE <<lines[1]>> \o Records(Tail(lines))

\* Path::extension of a file name (its last token, when it is one)
Extension(name) == IF Len(name) > 1 THEN name[Len(name)] ELSE ""

---------------------------------------------------------------------------
(* S1: extract_csv_data_multi *)

MARKERS_AND_SKIPS ==
    << [marker |-> <<"[", "Pachymetry", "]">>, skip |-> 3],
       [marker |-> <<"[", "Axial", " ", "Posterior", "]">>, skip |-> 3],
       [marker |-> <<"[", "Axial", " ", "Anterior", "]">>, skip |-> 3],
       [marker |-> <<"[", "Height", " ", "Anterior", "]">>, skip |-> 3],
       [marker |-> <<"[", "Height", " ", "Posterior", "]">>, skip |-> 3],
       [marker |-> <<"[", "Axial", " ", "Keratometric", "]">>, skip |-> 3],
       [marker |-> <<"[", "Elevation", " ", "Anterior", "]">>, skip |-> 11],
       [marker |-> <<"[", "Elevation", " ", "Posterior", "]">>, skip |-> 11] >>

\* The shape of a section. The program keeps 256 rows of 32 columns; the
\* model runs the same code with ROWS_TO_KEEP rows of COLS_TO_KEEP columns.
ROWS_TO_KEEP == 2
COLS_TO_KEEP == 2

\* find_marker_row_index: the 0-based index of the first record whose first
\* cell, trimmed, is the marker; from record i on
RECURSIVE find_marker_row_index(_, _, _)
find_marker_row_index(records, marker, i) ==
    IF i >= Len(records) THEN [ok |-> FALSE, index |-> 0]
    ELSE IF Trim(records[i + 1][1]) = marker THEN [ok |-> TRUE, index |-> i]
    ELSE find_marker_row_index(records, marker, i + 1)

\* Lines 89-90: the window [start_row, end_row) of record indices
StartRow(marker_row_index, rows_to_skip) == marker_row_index + rows_to_skip
EndRowOffByOne(start_row) == start_row + ROWS_TO_KEEP + 1
EndRow(start_row) == start_row + ROWS_TO_KEEP

\* A copy in which a short row does not use up its index: the window grows
\* by one for every row skipped
RECURSIVE CopyRowsUntilFull(_, _, _, _)
CopyRowsUntilFull(records, i, start_row, end_row) ==
    IF i >= Len(records) THEN <<>>
    ELSE IF i >= end_row THEN <<>>
    ELSE IF i >= start_row /\ i < end_row
         THEN IF Len(records[i + 1]) < COLS_TO_KEEP
              THEN CopyRowsUntilFull(records, i + 1, start_row, end_row + 1)
              ELSE <<SubSeq(records[i + 1], 1, COLS_TO_KEEP)>>
                   \o CopyRowsUntilFull(records, i + 1, start_row, end_row)
    ELSE CopyRowsUntilFull(records, i + 1, start_row, end_row)
\* Lines 115-140: the rows written, from record i (0-based) on
RECURSIVE CopyRows(_, _, _, _)
CopyRows(records, i, start_row, end_row) ==
    IF i >= Len(records) THEN <<>>
    ELSE IF i >= end_row THEN <<>>
    ELSE IF i >= start_row /\ i < end_row
         THEN IF Len(records[i + 1]) < COLS_TO_KEEP
              THEN CopyRows(records, i + 1, start_row, end_row)
              ELSE <<SubSeq(records[i + 1], 1, COLS_TO_KEEP)>>
                   \o CopyRows(records, i + 1, start_row, end_row)
    ELSE CopyRows(records, i + 1, start_row, end_row)

\* An output path that leaves out the name of the raw file
SharedPath(name, marker) ==
    LET term_dir == TrimMatches(marker, {"[", "]"})
        marker_label == Replace(TrimMatches(marker, {"[", "]"}), " ", "_")
    IN <<term_dir, marker_label \o <<".csv">>>>
\* Lines 93-100: the output path, <term dir>/<label>_<file name>
out_path(name, marker) ==
    LET term_dir == TrimMatches(marker, {"[", "]"})
        marker_label == Replace(TrimMatches(marker, {"[", "]"}), " ", "_")
    IN <<term_dir, marker_label \o <<"_">> \o name>>

\* process_csv_for_marker: whether it returned Ok, whether it created the
\* output file, and the rows it wrote
process_csv_for_marker(lines, marker, rows_to_skip) ==
    LET found == find_marker_row_index(Records(lines), marker, 0)
        start_row == StartRow(found.index, rows_to_skip)
        end_row == EndRow(start_row)
        written == CopyRows(Records(lines), 0, start_row, end_row)
    IN IF ~found.ok THEN [ok |-> FALSE, created |-> FALSE, rows |-> <<>>]
       ELSE [ok |-> Len(written) # 0, created |-> TRUE, rows |-> written]

\* The raw directory: two instrument files and an entry that is no .csv
Dir == {<<"a", ".csv">>, <<"b", ".csv">>, <<"notes", ".txt">>}
\* Lines 191-192: the output directory, a child of the input directory
output_dir == <<"processed_data">>
\* The input directory as a tree of paths: the raw files, the output
\* directory, and below it every section file that exists, in the directory
\* of its term
Tree(outputs) ==
    {<<name>> : name \in Dir} \cup {<<output_dir>>}
    \cup {<<output_dir, path[1], path[2]>> : path \in {q \in DOMAIN outputs : outputs[q].exists}}
\* Line 201: fs::read_dir yields the children of the directory itself
read_dir(tree) == {path[1] : path \in tree}
\* Lines 201-205: the entries process_directory keeps
csv_entries(tree) == {name \in read_dir(tree) : Extension(name) = ".csv"}
Entries == csv_entries(Tree(<<>>))

---------------------------------------------------------------------------
(* S1: the raw files the model runs on *)

\* Data row i of a section, `width` cells wide, every cell its own text
DataRow(i, width) == [j \in 1..width |-> <<ToString(100 * i + j)>>]
DataRows(from, to, width) == [i \in 1..(to - from + 1) |-> DataRow(from + i - 1, width)]

Prefixes == {"none", "blank", "substring", "later column"}
Forms == {"exact", "padded", "absent"}
Bodies == {"full", "minus", "plus", "short", "wide", "none"}

\* What precedes the tag line: nothing; a title and an empty line; a line
\* whose first cell holds the tag inside a longer text; a line that has the
\* tag in its second cell.
PrefixLines(tag, prefix) ==
    CASE prefix = "none" -> <<>>
      [] prefix = "blank" -> << <<<<"Title">>>>, <<>> >>
      [] prefix = "substring" -> << <<<<"see">> \o tag \o <<"below">>, <<"x">>>> >>
      [] prefix = "later column" -> << <<<<"Section">>, tag>> >>

\* The tag line: the tag alone in the first cell, or with blanks around it
TagLines(tag, form) ==
    CASE form = "exact" -> << <<tag>> >>
      [] form = "padded" -> << <<<<" ">> \o tag \o <<" ", " ">>, <<"x">>>> >>
      [] form = "absent" -> <<>>

\* The skip - 1 descriptor lines between the tag line and the first data row
DescriptorLines(skip) == [i \in 1..(skip - 1) |-> <<<<"descriptor">>>>]

\* The data rows: ROWS_TO_KEEP rows; one fewer; one more; a row too short
\* first and ROWS_TO_KEEP full rows after it; rows one cell wider; none.
BodyLines(body) ==
    CASE body = "full" -> DataRows(1, ROWS_TO_KEEP, COLS_TO_KEEP)
      [] body = "minus" -> DataRows(1, ROWS_TO_KEEP - 1, COLS_TO_KEEP)
      [] body = "plus" -> DataRows(1, ROWS_TO_KEEP + 1, COLS_TO_KEEP)
      [] body = "short" -> <<DataRow(1, COLS_TO_KEEP - 1)>>
                           \o DataRows(2, ROWS_TO_KEEP + 1, COLS_TO_KEEP)
      [] body = "wide" -> DataRows(1, ROWS_TO_KEEP, COLS_TO_KEEP + 1)
      [] body = "none" -> <<>>

\* A raw file with the section of marker number k
Section(k, prefix, form, body) ==
    PrefixLines(MARKERS_AND_SKIPS[k].marker, prefix)
    \o TagLines(MARKERS_AND_SKIPS[k].marker, form)
    \o DescriptorLines(MARKERS_AND_SKIPS[k].skip)
    \o BodyLines(body)

\* The files a.csv is drawn from: one section of [Axial Keratometric]
\* (skip 3) in every shape, or of [Elevation Anterior] (skip 11) in some
ShapesA ==
    {Section(6, prefix, form, body) :
        prefix \in Prefixes, form \in Forms, body \in Bodies}
    \cup {Section(7, "none", "exact", body) : body \in {"full", "plus", "short"}}
    \cup {Section(7, "substring", "padded", "minus")}

\* The files b.csv is drawn from: two full sections; no tag at all; a
\* [Pachymetry] section without data rows followed by a full section
ShapesB ==
    {Section(1, "none", "exact", "full") \o Section(6, "none", "exact", "full"),
     <<<<<<"Title">>>>>> \o BodyLines("full"),
     Section(1, "none", "exact", "none") \o Section(6, "none", "exact", "full")}

\* Every output path process_directory can write
Paths ==
    {out_path(name, MARKERS_AND_SKIPS[k].marker) :
        name \in Dir, k \in 1..Len(MARKERS_AND_SKIPS)}

InitRaw ==
    \E a \in ShapesA, b \in ShapesB :
        raw_files = [name \in Dir |->
                        IF name = <<"a", ".csv">> THEN a
                        ELSE IF name = <<"b", ".csv">> THEN b
                        ELSE Section(6, "none", "exact", "full")]

InitS1 ==
    /\ s1_pc = [name \in Entries |-> "running"]
    /\ next_marker = [name \in Entries |-> 1]
    /\ section_files = [path \in Paths |-> NoFile]
    /\ skipped = {}
    /\ processed_count = 0
    /\ failed_count = 0
    /\ run = 1
    /\ first_run = <<>>

InitX ==
    /\ x_pc = [name \in Entries |-> "todo"]
    /\ marker_pos = [name \in Entries |-> 0 - 2]
    /\ conv_files = [name \in Dir |-> NoFile]
    /\ processed_files = 0
    /\ failed_files = 0

\* Line 217, line 221: AtomicUsize::fetch_add(1, SeqCst)
StoreOne(count) == 1
FetchAdd(count) == count + 1

\* Lines 174-186: process_csv_for_all_markers goes on to the next marker
\* whatever process_csv_for_marker returned
StopOnError(k, result) == IF result.ok THEN k + 1 ELSE Len(MARKERS_AND_SKIPS) + 1
AfterMarker(k, result) == k + 1

\* Line 102: File::create truncates the file that exists
OpenAppend(old, written) == File(old.lines \o written)
Create(old, written) == File(written)

\* Lines 174-175: one marker of one file
ProcessMarker(name) ==
    /\ s1_pc[name] = "running"
    /\ next_marker[name] <= Len(MARKERS_AND_SKIPS)
    /\ LET k == next_marker[name]
           m == MARKERS_AND_SKIPS[k]
           r == process_csv_for_marker(raw_files[name], m.marker, m.skip)
       IN /\ section_files' =
                IF r.created
                THEN [section_files EXCEPT ![out_path(name, m.marker)] = Create(@, r.rows)]
                ELSE section_files
          /\ skipped' = IF r.ok THEN skipped ELSE skipped \cup {<<name, k>>}
          /\ next_marker' = [next_marker EXCEPT ![name] = AfterMarker(k, r)]
    /\ UNCHANGED <<restS1, raw_files, s1_pc, processed_count, failed_count, run, first_run>>

\* Lines 215-218: the closure returned; the file is counted as processed
FileDone(name) ==
    /\ s1_pc[name] = "running"
    /\ next_marker[name] > Len(MARKERS_AND_SKIPS)
    /\ s1_pc' = [s1_pc EXCEPT ![name] = "ok"]
    /\ processed_count' = FetchAdd(processed_count)
    /\ UNCHANGED <<restS1, raw_files, next_marker, section_files, skipped, failed_count,
                   run, first_run>>

\* Lines 212-222: a panic inside process_csv_for_all_markers is caught by
\* catch_unwind; the file is counted as failed
PanicInFile(name) ==
    /\ s1_pc[name] = "running"
    /\ s1_pc' = [s1_pc EXCEPT ![name] = "panic"]
    /\ failed_count' = FetchAdd(failed_count)
    /\ UNCHANGED <<restS1, raw_files, next_marker, section_files, skipped, processed_count,
                   run, first_run>>

\* The extractor is run once more over the same directory, after a run in
\* which no file panicked: process_directory (lines 190-211) lists the
\* directory as the first run left it and starts from fresh counters.
RunAgain ==
    /\ run = 1
    /\ \A name \in DOMAIN s1_pc : s1_pc[name] = "ok"
    /\ run' = 2
    /\ first_run' = section_files
    /\ s1_pc' = [name \in csv_entries(Tree(section_files)) |-> "running"]
    /\ next_marker' = [name \in csv_entries(Tree(section_files)) |-> 1]
    /\ skipped' = {}
    /\ processed_count' = 0
    /\ failed_count' = 0
    /\ UNCHANGED <<restS1, raw_files, section_files>>

NextS1 ==
    \/ \E name \in Entries : ProcessMarker(name)
    \/ \E name \in Entries : FileDone(name)
    \/ \E name \in Entries : PanicInFile(name)
    \/ RunAgain

\* Lines 226-229: for_each has returned
DirectoryDone == \A name \in Entries : s1_pc[name] \in {"ok", "panic"}

---------------------------------------------------------------------------
(* S1: extract_csv_data, the extractor of one marker *)

MARKER == <<"[", "Axial", " ", "Keratometric", "]">>
ROWS_TO_SKIP == 3

\* find_marker_position: the 0-based index of the first line that contains
\* the marker; from line i on
RECURSIVE find_marker_position(_, _)
find_marker_position(lines, i) ==
    IF i >= Len(lines) THEN [ok |-> FALSE, index |-> 0]
    ELSE IF Contains(LineText(lines[i + 1]), MARKER) THEN [ok |-> TRUE, index |-> i]
    ELSE find_marker_position(lines, i + 1)

\* Lines 84-119: the rows written, from record i (1-based) on; current_row
\* is not advanced for a record skipped as too short
RECURSIVE CopyWindow(_, _, _, _, _)
CopyWindow(records, i, current_row, start_row, end_row) ==
    IF i > Len(records) THEN <<>>
    ELSE IF current_row >= end_row THEN <<>>
    ELSE IF current_row >= start_row /\ current_row < end_row
         THEN IF Len(records[i]) < COLS_TO_KEEP
              THEN CopyWindow(records, i + 1, current_row, start_row, end_row)
              ELSE <<SubSeq(records[i], 1, COLS_TO_KEEP)>>
                   \o CopyWindow(records, i + 1, current_row + 1, start_row, end_row)
    ELSE CopyWindow(records, i + 1, current_row + 1, start_row, end_row)

\* process_csv_file
process_csv_file(lines) ==
    LET found == find_marker_position(lines, 0)
        start_row == found.index + ROWS_TO_SKIP
        end_row == start_row + ROWS_TO_KEEP
        written == CopyWindow(Records(lines), 1, 0, start_row, end_row)
    IN IF ~found.ok THEN [ok |-> FALSE, created |-> FALSE, pos |-> 0 - 1, rows |-> <<>>]
       ELSE [ok |-> Len(written) # 0, created |-> TRUE, pos |-> found.index,
             rows |-> written]

\* Lines 150-166: main takes the .csv entries one after the other
ProcessCsvFile(name) ==
    /\ x_pc[name] = "todo"
    /\ LET r == process_csv_file(raw_files[name])
       IN /\ x_pc' = [x_pc EXCEPT ![name] = IF r.ok THEN "ok" ELSE "failed"]
          /\ marker_pos' = [marker_pos EXCEPT ![name] = r.pos]
          /\ conv_files' = IF r.created
                           THEN [conv_files EXCEPT ![name] = File(r.rows)]
                           ELSE conv_files
          /\ processed_files' = IF r.ok THEN processed_files + 1 ELSE processed_files
          /\ failed_files' = IF r.ok THEN failed_files ELSE failed_files + 1
    /\ UNCHANGED <<restX, raw_files>>

NextX == \E name \in Entries : ProcessCsvFile(name)

---------------------------------------------------------------------------
(* S2: csv_duplicate_fuzzy *)

\* A file name is the sequence of its parts between underscores
\* (str::split('_')), each part a sequence of characters, ".csv" and ".txt"
\* being one character each.
DigitChars == <<"0", "1", "2", "3", "4", "5", "6", "7", "8", "9">>
IsDigit(c) == \E d \in 1..Len(DigitChars) : DigitChars[d] = c
DigitOf(c) == (CHOOSE d \in 1..Len(DigitChars) : DigitChars[d] = c) - 1

\* chars().filter(|c| c.is_digit(10)).collect::<String>()
RECURSIVE FilterDigits(_)
FilterDigits(s) ==
    IF Len(s) = 0 THEN <<>>
    ELSE IF IsDigit(s[1]) THEN <<s[1]>> \o FilterDigits(Tail(s))
    ELSE FilterDigits(Tail(s))

\* str::parse::<u32> of a string of digits (no digit: Err). The names of
\* NamePool have at most three digits, far from u32::MAX.
RECURSIVE ParseDigits(_, _)
ParseDigits(s, acc) ==
    IF Len(s) = 0 THEN acc ELSE ParseDigits(Tail(s), 10 * acc + DigitOf(s[1]))
ParseU32(s) ==
    IF Len(s) = 0 THEN [ok |-> FALSE, value |-> 0]
    ELSE [ok |-> TRUE, value |-> ParseDigits(s, 0)]

\* parse_filename: Some((base, eye, sequence)), None, or the panic of
\* parts[5] on a name of exactly five parts
parse_filename(filename) ==
    LET parts == filename
    IN IF Len(parts) >= 5
       THEN IF Len(parts) < 6
            THEN [kind |-> "panic", base |-> <<>>, eye |-> <<>>, sequence |-> 0]
            ELSE LET parsed == ParseU32(FilterDigits(parts[6]))
                 IN IF parsed.ok
                    THEN [kind |-> "some", base |-> SubSeq(parts, 1, 4),
                          eye |-> parts[5], sequence |-> parsed.value]
                    ELSE [kind |-> "none", base |-> <<>>, eye |-> <<>>, sequence |-> 0]
       ELSE [kind |-> "none", base |-> <<>>, eye |-> <<>>, sequence |-> 0]

\* Path::extension() == Some("csv"): the file name ends in ".csv" and is
\* more than that (a name that begins with its only dot has no extension)
IsCsv(filename) ==
    LET last == filename[Len(filename)]
    IN /\ Len(last) >= 1
       /\ last[Len(last)] = ".csv"
       /\ Len(filename) > 1 \/ Len(last) > 1

\* Lines 44-53: the .csv names, in the order of the listing
RECURSIVE csv_files(_)
csv_files(names) ==
    IF Len(names) = 0 THEN <<>>
    ELSE IF IsCsv(names[1]) THEN <<names[1]>> \o csv_files(Tail(names))
    ELSE csv_files(Tail(names))

\* Lines 58-66: the FileInfo of the names that parse, in the order of the
\* listing, each with its group key
RECURSIVE FileInfos(_)
FileInfos(names) ==
    IF Len(names) = 0 THEN <<>>
    ELSE LET p == parse_filename(names[1])
         IN IF p.kind = "some"
            THEN <<[filename |-> names[1], sequence |-> p.sequence,
                    key |-> <<p.base, p.eye>>]>> \o FileInfos(Tail(names))
            ELSE FileInfos(Tail(names))

\* file_groups[key]: the Vec of the key, in the order of insertion
RECURSIVE GroupOf(_, _)
GroupOf(infos, key) ==
    IF Len(infos) = 0 THEN <<>>
    ELSE IF infos[1].key = key THEN <<infos[1]>> \o GroupOf(Tail(infos), key)
    ELSE GroupOf(Tail(infos), key)

\* Line 74: sort_by_key(|f| f.sequence), a stable sort (insertion of x
\* after the elements not greater than it)
RECURSIVE InsertBeforeEqual(_, _)
InsertBeforeEqual(sorted, x) ==
    IF Len(sorted) = 0 THEN <<x>>
    ELSE IF sorted[Len(sorted)].sequence < x.sequence THEN Append(sorted, x)
    ELSE Append(InsertBeforeEqual(SubSeq(sorted, 1, Len(sorted) - 1), x),
                sorted[Len(sorted)])
RECURSIVE InsertSorted(_, _)
InsertSorted(sorted, x) ==
    IF Len(sorted) = 0 THEN <<x>>
    ELSE IF sorted[Len(sorted)].sequence <= x.sequence THEN Append(sorted, x)
    ELSE Append(InsertSorted(SubSeq(sorted, 1, Len(sorted) - 1), x), sorted[Len(sorted)])
RECURSIVE SortFrom(_, _)
SortFrom(files, sorted) ==
    IF Len(files) = 0 THEN sorted
    ELSE SortFrom(Tail(files), InsertSorted(sorted, files[1]))
Unsorted(files) == files
SortBySequence(files) == SortFrom(files, <<>>)

\* Reports that remove every file of the group, the first one too
GroupReportsWithoutSkip(group) ==
    IF Len(group) > 1
    THEN LET files == SortBySequence(group)
             keep_file == files[1]
         IN [i \in 1..Len(files) |->
                [keep_file |-> keep_file.filename,
                 remove_file |-> files[i].filename,
                 reason |-> [keep |-> keep_file.sequence,
                             remove |-> files[i].sequence,
                             eye |-> group[1].key[2]]]]
    ELSE <<>>
\* Lines 72-90: the reports of one group
GroupReports(group) ==
    IF Len(group) > 1
    THEN LET files == SortBySequence(group)
             keep_file == files[1]
         IN [i \in 1..(Len(files) - 1) |->
                [keep_file |-> keep_file.filename,
                 remove_file |-> files[i + 1].filename,
                 reason |-> [keep |-> keep_file.sequence,
                             remove |-> files[i + 1].sequence,
                             eye |-> group[1].key[2]]]]
    ELSE <<>>

\* Line 71: the groups are visited in the order the HashMap iterates them
RECURSIVE ReportsInOrder(_, _)
ReportsInOrder(infos, keys) ==
    IF Len(keys) = 0 THEN <<>>
    ELSE GroupReports(GroupOf(infos, keys[1])) \o ReportsInOrder(infos, Tail(keys))

GroupKeys(infos) == {infos[i].key : i \in 1..Len(infos)}
Orders(S) ==
    {o \in [1..Cardinality(S) -> S] : \A i, j \in 1..Cardinality(S) : o[i] = o[j] => i = j}

\* The names the model's directories are made of
Name(base, eye, last) == <<<<base>>, <<"B">>, <<"C">>, <<"D">>, <<eye>>, last>>
NamePool ==
    {Name("A", "L", <<"0", "0", "1", ".csv">>),
     Name("A", "L", <<"0", "0", "2", ".csv">>),
     Name("A", "L", <<"1", ".csv">>),
     Name("A", "R", <<"0", "0", "1", ".csv">>),
     Name("A", "R", <<"0", "0", "2", ".csv">>),
     Name("Z", "L", <<"0", "0", "5", ".csv">>),
     Name("A", "L", <<"x", ".csv">>),
     Name("A", "L", <<"0", "0", "3", ".txt">>),
     <<<<"A">>, <<"B">>, <<"C">>, <<"D">>, <<".csv">>>>,
     <<<<"A">>, <<"B">>, <<"C", ".csv">>>>}
MaxFiles == 4
Listings ==
    UNION {{l \in [1..n -> NamePool] : \A i, j \in 1..n : l[i] = l[j] => i = j} :
              n \in 0..MaxFiles}

NoAudit == [exists |-> FALSE, header |-> <<>>, rows |-> <<>>]

InitS2 ==
    /\ listing \in Listings
    /\ disk = Range(listing)
    /\ s2_pc = "scan"
    /\ duplicate_reports = <<>>
    /\ audit = NoAudit
    /\ remove_idx = 0
    /\ removing = <<>>

\* Lines 137-141: find_duplicates and the test of its result
FindDuplicates ==
    /\ s2_pc = "scan"
    /\ LET names == csv_files(listing)
           infos == FileInfos(names)
       IN IF \E i \in 1..Len(names) : parse_filename(names[i]).kind = "panic"
          THEN /\ s2_pc' = "panic"
               /\ duplicate_reports' = duplicate_reports
          ELSE \E order \in Orders(GroupKeys(infos)) :
                  /\ duplicate_reports' = ReportsInOrder(infos, order)
                  /\ s2_pc' = IF duplicate_reports' = <<>> THEN "done" ELSE "report"
    /\ UNCHANGED <<restS2, listing, disk, audit, remove_idx, removing>>

\* Lines 143, 96-110: write_csv_report
WriteCsvReport ==
    /\ s2_pc = "report"
    /\ audit' = [exists |-> TRUE,
                 header |-> <<"Keep File", "Remove File", "Reason">>,
                 rows |-> duplicate_reports]
    /\ s2_pc' = "remove"
    /\ remove_idx' = 1
    /\ UNCHANGED <<restS2, listing, disk, duplicate_reports, removing>>

\* Lines 97-108: what a write_csv_report that returns Err may leave: no
\* file, an empty file, or the header and the rows flushed so far
FailedAudits(reports) ==
    {NoAudit, [exists |-> TRUE, header |-> <<>>, rows |-> <<>>]}
    \cup {[exists |-> TRUE,
           header |-> <<"Keep File", "Remove File", "Reason">>,
           rows |-> SubSeq(reports, 1, n)] : n \in 0..Len(reports)}

\* Line 143: write_csv_report returns Err (the file cannot be created,
\* written or flushed); main returns it
IgnoreWriteError ==
    /\ s2_pc = "report"
    /\ audit' \in FailedAudits(duplicate_reports)
    /\ s2_pc' = "remove"
    /\ remove_idx' = 1
    /\ UNCHANGED <<restS2, listing, disk, duplicate_reports, removing>>
WriteCsvReportFails ==
    /\ s2_pc = "report"
    /\ audit' \in FailedAudits(duplicate_reports)
    /\ s2_pc' = "err"
    /\ UNCHANGED <<restS2, listing, disk, duplicate_reports, remove_idx, removing>>

\* Line 116: file_path.exists() of the report's target, and line 117 when
\* it is there; a target that is not there is passed over
TargetExists ==
    /\ s2_pc = "remove"
    /\ remove_idx <= Len(duplicate_reports)
    /\ LET remove_file == duplicate_reports[remove_idx].remove_file
       IN IF remove_file \in disk
          THEN /\ removing' = Append(removing, remove_file)
               /\ s2_pc' = "unlink"
               /\ remove_idx' = remove_idx
          ELSE /\ remove_idx' = remove_idx + 1
               /\ UNCHANGED <<s2_pc, removing>>
    /\ UNCHANGED <<restS2, listing, disk, duplicate_reports, audit>>

\* Line 118: fs::remove_file of the target that exists() has seen
RemoveFile ==
    /\ s2_pc = "unlink"
    /\ duplicate_reports[remove_idx].remove_file \in disk
    /\ disk' = disk \ {duplicate_reports[remove_idx].remove_file}
    /\ remove_idx' = remove_idx + 1
    /\ s2_pc' = "remove"
    /\ UNCHANGED <<restS2, listing, duplicate_reports, audit, removing>>

\* Line 118: fs::remove_file returns Err, on a file that is there or on one
\* that has gone since exists(); remove_duplicate_files returns it
RemoveFileFails ==
    /\ s2_pc = "unlink"
    /\ s2_pc' = "err"
    /\ UNCHANGED <<restS2, listing, disk, duplicate_reports, audit, remove_idx, removing>>

\* Lines 121, 160-164
RemoveDone ==
    /\ s2_pc = "remove"
    /\ remove_idx > Len(duplicate_reports)
    /\ s2_pc' = "done"
    /\ UNCHANGED <<restS2, listing, disk, duplicate_reports, audit, remove_idx, removing>>

\* Lines 116-118: a removal target may be gone when its turn comes, or
\* between exists() and remove_file: someone else removes it while
\* remove_duplicate_files runs
TargetVanishes ==
    /\ s2_pc \in {"remove", "unlink"}
    /\ \E i \in remove_idx..Len(duplicate_reports) :
          /\ duplicate_reports[i].remove_file \in disk
          /\ disk' = disk \ {duplicate_reports[i].remove_file}
    /\ UNCHANGED <<restS2, listing, s2_pc, duplicate_reports, audit, remove_idx, removing>>

NextS2 ==
    \/ FindDuplicates
    \/ WriteCsvReport
    \/ WriteCsvReportFails
    \/ TargetExists
    \/ RemoveFile
    \/ RemoveFileFails
    \/ RemoveDone
    \/ TargetVanishes

---------------------------------------------------------------------------
(* S4: csv_filter and csv_to_8 *)

\* A cell is a sequence of characters; a line is a sequence of cells.
\* str::parse::<i32>: an optional sign, then digits and nothing else
ParseI32(s) ==
    LET digits == IF Len(s) > 0 /\ s[1] \in {"+", "-"} THEN Tail(s) ELSE s
    IN IF Len(digits) = 0 \/ \E i \in 1..Len(digits) : ~IsDigit(digits[i])
       THEN [ok |-> FALSE, value |-> 0]
       ELSE [ok |-> TRUE,
             value |-> IF s[1] = "-" THEN 0 - ParseDigits(digits, 0)
                       ELSE ParseDigits(digits, 0)]

\* csv_filter line 9: the allowed Radial_Index values, as strings
allowed_values ==
    {<<"1">>, <<"4">>, <<"8">>, <<"1", "2">>, <<"1", "6">>, <<"2", "4">>,
     <<"2", "8">>, <<"3", "2">>}
\* csv_to_8 line 10: the Radial_Index values to separate, as integers
radial_indices == {1, 4, 8, 12, 16, 24, 28, 32}

\* Reader::headers of a reader with headers: the first record, or the
\* empty record of a file without any
Headers(lines) == IF Len(Records(lines)) = 0 THEN <<>> ELSE Records(lines)[1]
\* Reader::records of that reader: the records after the header
DataRecords(lines) == IF Len(Records(lines)) = 0 THEN <<>> ELSE Tail(Records(lines))

\* headers.iter().position(|header| header == "Radial_Index"), 0-based,
\* from column i on
RECURSIVE Position(_, _)
Position(headers, i) ==
    IF i >= Len(headers) THEN [found |-> FALSE, index |-> 0]
    ELSE IF headers[i + 1] = <<"Radial_Index">> THEN [found |-> TRUE, index |-> i]
    ELSE Position(headers, i + 1)

\* A filter that takes a cell for allowed when it parses to an allowed integer
RECURSIVE FilterByParse(_, _, _)
FilterByParse(records, width, radial_index) ==
    IF Len(records) = 0 THEN [ok |-> TRUE, rows |-> <<>>]
    ELSE IF Len(records[1]) # width THEN [ok |-> FALSE, rows |-> <<>>]
    ELSE LET rest == FilterByParse(Tail(records), width, radial_index)
             parsed == ParseI32(records[1][radial_index + 1])
         IN IF parsed.ok /\ parsed.value \in radial_indices
            THEN [ok |-> rest.ok, rows |-> <<records[1]>> \o rest.rows]
            ELSE rest
\* csv_filter lines 65-72: the records written and whether the loop ended
\* without Err; a record whose length is not the header's is the reader's
\* Err (the reader is not flexible)
RECURSIVE FilterRecords(_, _, _)
FilterRecords(records, width, radial_index) ==
    IF Len(records) = 0 THEN [ok |-> TRUE, rows |-> <<>>]
    ELSE IF Len(records[1]) # width THEN [ok |-> FALSE, rows |-> <<>>]
    ELSE LET rest == FilterRecords(Tail(records), width, radial_index)
         IN IF records[1][radial_index + 1] \in allowed_values
            THEN [ok |-> rest.ok, rows |-> <<records[1]>> \o rest.rows]
            ELSE rest

\* A process_file that writes the kept records without the header
HeadlessOutput(lines) ==
    LET headers == Headers(lines)
        radial_index == Position(headers, 0)
        kept == FilterRecords(DataRecords(lines), Len(headers), radial_index.index)
    IN IF ~radial_index.found THEN [ok |-> FALSE, out |-> File(<<>>)]
       ELSE [ok |-> kept.ok, out |-> File(kept.rows)]
\* csv_filter process_file: Ok or Err, and the output file it leaves
filter_process_file(lines) ==
    LET headers == Headers(lines)
        radial_index == Position(headers, 0)
        kept == FilterRecords(DataRecords(lines), Len(headers), radial_index.index)
    IN IF ~radial_index.found THEN [ok |-> FALSE, out |-> File(<<headers>>)]
       ELSE [ok |-> kept.ok, out |-> File(<<headers>> \o kept.rows)]

\* A split that takes only cells made of digits alone
RECURSIVE SplitUnsigned(_, _, _, _)
SplitUnsigned(records, width, radial_index_col, index) ==
    IF Len(records) = 0 THEN [ok |-> TRUE, rows |-> <<>>]
    ELSE IF Len(records[1]) # width THEN [ok |-> FALSE, rows |-> <<>>]
    ELSE LET rest == SplitUnsigned(Tail(records), width, radial_index_col, index)
             cell == records[1][radial_index_col + 1]
             parsed == ParseU32(IF \A i \in 1..Len(cell) : IsDigit(cell[i])
                                THEN cell ELSE <<>>)
         IN IF parsed.ok /\ parsed.value = index
            THEN [ok |-> rest.ok, rows |-> <<records[1]>> \o rest.rows]
            ELSE rest
\* csv_to_8 lines 84-93: the records written to the writer of `index`
RECURSIVE SplitRecords(_, _, _, _)
SplitRecords(records, width, radial_index_col, index) ==
    IF Len(records) = 0 THEN [ok |-> TRUE, rows |-> <<>>]
    ELSE IF Len(records[1]) # width THEN [ok |-> FALSE, rows |-> <<>>]
    ELSE LET rest == SplitRecords(Tail(records), width, radial_index_col, index)
             parsed == ParseI32(records[1][radial_index_col + 1])
         IN IF parsed.ok /\ parsed.value = index
            THEN [ok |-> rest.ok, rows |-> <<records[1]>> \o rest.rows]
            ELSE rest

\* csv_to_8 process_file: Ok or Err, whether the output files were created,
\* and the file left for every index
split_process_file(lines) ==
    LET headers == Headers(lines)
        radial_index_col == Position(headers, 0)
        Written(index) ==
            SplitRecords(DataRecords(lines), Len(headers), radial_index_col.index, index)
    IN IF ~radial_index_col.found
       THEN [ok |-> FALSE, created |-> FALSE, out |-> [k \in radial_indices |-> NoFile]]
       ELSE [ok |-> \A k \in radial_indices : Written(k).ok,
             created |-> TRUE,
             out |-> [k \in radial_indices |-> File(<<headers>> \o Written(k).rows)]]

\* The combined directory: two combined files and an entry that is no .csv
S4Dir == {<<"p", ".csv">>, <<"q", ".csv">>, <<"readme", ".txt">>}
\* csv_filter line 28, csv_to_8 line 31: the entries that are processed
S4Entries == {name \in S4Dir : Extension(name) = ".csv"}

\* The headers of the model's files: Radial_Index second, first, absent,
\* and present only with a blank before it
HeaderKinds == {"second", "first", "absent", "padded"}
HeaderOf(kind) ==
    CASE kind = "second" -> <<<<"Meridian_Index">>, <<"Radial_Index">>, <<"Value">>>>
      [] kind = "first" -> <<<<"Radial_Index">>, <<"Meridian_Index">>, <<"Value">>>>
      [] kind = "absent" -> <<<<"Meridian_Index">>, <<"Radial">>, <<"Value">>>>
      [] kind = "padded" -> <<<<"Meridian_Index">>, <<" ", "Radial_Index">>, <<"Value">>>>

\* The Radial_Index cells of the model's rows; one more kind of line is a
\* record one cell short
RadialCells ==
    {<<"1">>, <<"8">>, <<"0", "8">>, <<"+", "8">>, <<" ", "8">>, <<"2">>}
LineKinds == RadialCells \cup {<<"ragged">>}

\* Line i of a file: its first cell tells the lines apart (and is itself
\* 1, an allowed value, on the first line)
LineOf(i, kind, header) ==
    IF kind = <<"ragged">> THEN <<<<ToString(i)>>, <<"8">>>>
    ELSE IF header = "first" THEN <<kind, <<ToString(i)>>, <<"v">>>>
    ELSE <<<<ToString(i)>>, kind, <<"v">>>>

MaxRows == 3
CombinedFile(header, kinds) ==
    <<HeaderOf(header)>> \o [i \in 1..Len(kinds) |-> LineOf(i, kinds[i], header)]

\* The files p.csv is drawn from: every sequence of up to MaxRows lines
\* under the usual header, and two lines under each of the other headers
FilesP ==
    {CombinedFile("second", kinds) :
        kinds \in UNION {[1..n -> LineKinds] : n \in 0..MaxRows}}
    \cup {CombinedFile(header, <<<<"8">>, <<"2">>>>) : header \in HeaderKinds}
\* The files q.csv is drawn from
FilesQ ==
    {CombinedFile("second", <<<<"8">>, <<"1">>, <<"2">>>>),
     CombinedFile("absent", <<<<"8">>>>),
     CombinedFile("second", <<<<"8">>, <<"ragged">>, <<"1">>>>)}

InitIn ==
    \E p \in FilesP, q \in FilesQ :
        in_files = [name \in S4Dir |->
                       IF name = <<"p", ".csv">> THEN p
                       ELSE IF name = <<"q", ".csv">> THEN q
                       ELSE CombinedFile("second", <<<<"8">>>>)]

InitFilter ==
    /\ filter_pc = [name \in S4Entries |-> "todo"]
    /\ filter_main = "running"
    /\ limited = [name \in S4Dir |-> NoFile]

\* csv_filter line 29: what main does with the result of process_file
PropagateErr(ok) == IF ok THEN "running" ELSE "err"

\* csv_filter lines 24-31: main takes the next entry read_dir yields
FilterFile(name) ==
    /\ filter_main = "running"
    /\ filter_pc[name] = "todo"
    /\ LET r == filter_process_file(in_files[name])
       IN /\ filter_pc' = [filter_pc EXCEPT ![name] = IF r.ok THEN "ok" ELSE "err"]
          /\ limited' = [limited EXCEPT ![name] = r.out]
          /\ filter_main' = PropagateErr(r.ok)
    /\ UNCHANGED <<restFilter, in_files>>

\* csv_filter line 33: the loop is over, main returns Ok
FilterDone ==
    /\ filter_main = "running"
    /\ \A name \in S4Entries : filter_pc[name] # "todo"
    /\ filter_main' = "ok"
    /\ UNCHANGED <<restFilter, in_files, filter_pc, limited>>

NextFilter ==
    \/ \E name \in S4Entries : FilterFile(name)
    \/ FilterDone

InitSplit ==
    /\ split_pc = [name \in S4Entries |-> "todo"]
    /\ radial = [k \in radial_indices |-> [name \in S4Dir |-> NoFile]]

\* csv_to_8 lines 64-73: the output file name, "<file_stem>.csv"
FileStem(name) == IF Len(name) > 1 THEN SubSeq(name, 1, Len(name) - 1) ELSE name
OutputName(name) == FileStem(name) \o <<".csv">>

\* csv_to_8 lines 28-36: one entry of the parallel for_each; an Err of
\* process_file is printed and the closure returns
SplitFile(name) ==
    /\ split_pc[name] = "todo"
    /\ LET r == split_process_file(in_files[name])
       IN /\ split_pc' = [split_pc EXCEPT ![name] = IF r.ok THEN "ok" ELSE "err"]
          /\ radial' = IF r.created
                       THEN [k \in radial_indices |->
                                [radial[k] EXCEPT ![OutputName(name)] = r.out[k]]]
                       ELSE radial
    /\ UNCHANGED <<restSplit, in_files>>

NextSplit == \E name \in S4Entries : SplitFile(name)

---------------------------------------------------------------------------
(* library_manager: Book *)

\* The calls of borrow the model follows on one book
MaxBorrows == 60

\* Book::new: not borrowed, never borrowed
Book_new == [is_borrowed |-> FALSE, borrow_count |-> 0]

\* A borrow that counts the call whether or not it succeeds
borrow_counting_calls(b) ==
    IF b.is_borrowed
    THEN [ok |-> FALSE, book |-> [b EXCEPT !.borrow_count = @ + 1]]
    ELSE [ok |-> TRUE, book |-> [is_borrowed |-> TRUE, borrow_count |-> b.borrow_count + 1]]
\* Book::borrow: Err for a borrowed book, which it leaves as it is
borrow(b) ==
    IF b.is_borrowed
    THEN [ok |-> FALSE, book |-> b]
    ELSE [ok |-> TRUE, book |-> [is_borrowed |-> TRUE, borrow_count |-> b.borrow_count + 1]]

\* Book::return_book: Err for a book that is not borrowed
return_book(b) ==
    IF ~b.is_borrowed
    THEN [ok |-> FALSE, book |-> b]
    ELSE [ok |-> TRUE, book |-> [b EXCEPT !.is_borrowed = FALSE]]

NoCall == [op |-> "none", ok |-> TRUE]

InitBook ==
    /\ book = Book_new
    /\ last_call = NoCall
    /\ successful_borrows = 0

\* A call of book.borrow()
Borrow ==
    /\ successful_borrows < MaxBorrows
    /\ LET r == borrow(book)
       IN /\ book' = r.book
          /\ last_call' = [op |-> "borrow", ok |-> r.ok]
          /\ successful_borrows' = successful_borrows + (IF r.ok THEN 1 ELSE 0)
    /\ UNCHANGED restBook

\* A call of book.return_book()
ReturnBook ==
    /\ LET r == return_book(book)
       IN /\ book' = r.book
          /\ last_call' = [op |-> "return_book", ok |-> r.ok]
    /\ UNCHANGED <<restBook, successful_borrows>>

NextBook ==
    \/ Borrow
    \/ ReturnBook

\*SPECS-BEGIN
---------------------------------------------------------------------------
(* The specifications: one program runs, the others' variables rest *)

IdleS3 ==
    /\ param_files = <<>> /\ pc = "off" /\ parameters = <<>>
    /\ stats_map = <<>> /\ rows = <<>> /\ combined = NoFile
IdleBatch ==
    /\ batch_files = <<>> /\ batch_pc = <<>> /\ batch_read = <<>>
    /\ batch_out = <<>> /\ full = FALSE
IdleS1 ==
    /\ s1_pc = <<>> /\ next_marker = <<>> /\ section_files = <<>>
    /\ skipped = {} /\ processed_count = 0 /\ failed_count = 0
    /\ run = 0 /\ first_run = <<>>
IdleX ==
    /\ x_pc = <<>> /\ marker_pos = <<>> /\ conv_files = <<>>
    /\ processed_files = 0 /\ failed_files = 0
IdleRaw == raw_files = <<>>
IdleS2 ==
    /\ listing = <<>> /\ disk = {} /\ s2_pc = "off"
    /\ duplicate_reports = <<>> /\ audit = NoAudit /\ remove_idx = 0
    /\ removing = <<>>
IdleIn == in_files = <<>>
IdleFilter == filter_pc = <<>> /\ filter_main = "off" /\ limited = <<>>
IdleSplit == split_pc = <<>> /\ radial = <<>>
IdleS4 == IdleIn /\ IdleFilter /\ IdleSplit
IdleBook == book = <<>> /\ last_call = <<>> /\ successful_borrows = 0

\* grid_fix_multi, one sample
S3Init == InitS3 /\ IdleBatch /\ IdleRaw /\ IdleS1 /\ IdleX /\ IdleS2 /\ IdleS4 /\ IdleBook
SpecS3 == S3Init /\ [][NextS3]_vars

\* grid_fix_multi, the batch
BatchInit == InitBatch /\ IdleS3 /\ IdleRaw /\ IdleS1 /\ IdleX /\ IdleS2 /\ IdleS4 /\ IdleBook
SpecBatch == BatchInit /\ [][NextBatch]_vars

\* extract_csv_data_multi, one directory
S1Init == InitRaw /\ InitS1 /\ IdleS3 /\ IdleBatch /\ IdleX /\ IdleS2 /\ IdleS4 /\ IdleBook
SpecS1 == S1Init /\ [][NextS1]_vars

\* extract_csv_data
XInit == InitRaw /\ InitX /\ IdleS3 /\ IdleBatch /\ IdleS1 /\ IdleS2 /\ IdleS4 /\ IdleBook
SpecX == XInit /\ [][NextX]_vars

\* csv_duplicate_fuzzy
S2Init ==
    InitS2 /\ IdleS3 /\ IdleBatch /\ IdleRaw /\ IdleS1 /\ IdleX /\ IdleS4 /\ IdleBook
SpecS2 == S2Init /\ [][NextS2]_vars

\* csv_filter
FilterInit ==
    InitIn /\ InitFilter /\ IdleSplit
    /\ IdleS3 /\ IdleBatch /\ IdleRaw /\ IdleS1 /\ IdleX /\ IdleS2 /\ IdleBook
SpecFilter == FilterInit /\ [][NextFilter]_vars

\* csv_to_8
SplitInit ==
    InitIn /\ InitSplit /\ IdleFilter
    /\ IdleS3 /\ IdleBatch /\ IdleRaw /\ IdleS1 /\ IdleX /\ IdleS2 /\ IdleBook
SpecSplit == SplitInit /\ [][NextSplit]_vars

\* library_manager: the calls that can be made on one Book
BookInit ==
    InitBook /\ IdleS3 /\ IdleBatch /\ IdleRaw /\ IdleS1 /\ IdleX /\ IdleS2 /\ IdleS4
SpecBook == BookInit /\ [][NextBook]_vars

\*CLAIMS-BEGIN
---------------------------------------------------------------------------
(* The claims about S3 *)

\* The (Meridian_Index, Radial_Index) of the k-th data row in (meridian
\* ascending, radial ascending) order
MeridianOf(k) == ((k - 1) \div num_radials) + 1
RadialOf(k) == ((k - 1) % num_radials) + 1

\* C1: at every moment the combined file, once created, is the header
\* followed by the first data rows of the (meridian ascending, radial
\* ascending) enumeration of 1..num_meridians x 1..num_radials, each pair
\* once, and when process_patient_data returns Ok all GridSize rows are
\* there, whatever the order in which the row tasks ran.
C1_RowsInGridOrder ==
    combined.exists =>
        /\ Len(combined.lines) >= 1
        /\ Len(combined.lines) <= GridSize + 1
        /\ combined.lines[1] = Header
        /\ \A k \in 1..(Len(combined.lines) - 1) :
              /\ combined.lines[k + 1][1] = Num(MeridianOf(k))
              /\ combined.lines[k + 1][2] = Num(RadialOf(k))
        /\ (pc = "done" => Len(combined.lines) = GridSize + 1)

\* C1's case: a sample written to its end
C1_Witness ==
    /\ pc = "done"
    /\ Len(combined.lines) = GridSize + 1
    /\ combined.lines[GridSize + 1][1] = Num(num_meridians)
    /\ combined.lines[GridSize + 1][2] = Num(num_radials)

\* C2: in every row written, Transformed_Radius is J0 of pi times the row's
\* own Normalized_Radius = (Radial_Index - 1) / (num_radials - 1), and the
\* row (1, 1) has Transformed_Radius = 1, X_Coordinate = 1, Y_Coordinate = 0.
C2_TransformedOfOwnRadius ==
    \A k \in 2..Len(combined.lines) :
        LET row == combined.lines[k]
        IN /\ row[5] = Num(Div(Fx(row[2].v) - Scale, Fx(num_radials) - Scale))
           /\ row[6] = Num(bessel_j0(Mul(PI, row[5].v)))
           /\ (row[1] = Num(1) /\ row[2] = Num(1)) =>
                 /\ row[6] = Num(Scale)
                 /\ row[9] = Num(Scale)
                 /\ row[10] = Num(0)

\* C3: a sample one of whose parameter vectors has not exactly GridSize
\* values, or holds a non-finite value, ends in an error: not in a panic,
\* and not accepted.
C3_WrongLengthRejected ==
    (pc \in {"done", "panic", "err"}
       /\ (WrongLength(param_files) \/ NonFinite(param_files)))
    => pc = "err"

\* C4: a rejected sample leaves no combined file, and a combined file left
\* by process_patient_data is complete: never the header alone, never a part.
C4_AbsentOrComplete ==
    /\ (pc \in {"err", "panic"} => ~combined.exists)
    /\ (pc \in {"done", "err", "panic"} /\ combined.exists
          => Len(combined.lines) = GridSize + 1)

\* C5: when the batch is over, every sample whose files are well formed
\* has been processed and has its complete combined file, whatever happened
\* to the other samples (stated for the batches in which no worker panicked:
\* the rejections are errors).
C5_OthersStillProcessed ==
    (BatchDone /\ \A s \in Samples : batch_pc[s] # "panic")
    => \A s \in Samples :
          WellFormed(batch_files[s]) =>
              /\ batch_pc[s] = "done"
              /\ batch_out[s].exists
              /\ Len(batch_out[s].lines) = GridSize + 1

---------------------------------------------------------------------------
(* The claims about S1 *)

\* The records (1-based) whose first cell, trimmed, is the tag
ExactAt(records, tag) == {i \in 1..Len(records) : Trim(records[i][1]) = tag}
\* The 0-based index of the first of them
FirstExact(records, tag) ==
    LET exact == ExactAt(records, tag)
    IN (CHOOSE i \in exact : \A j \in exact : i <= j) - 1
\* The 0-based record indices of the window of ROWS_TO_KEEP indices that
\* starts skip records after the tag, and those of them with at least
\* COLS_TO_KEEP columns
WindowOf(records, tag, skip) ==
    LET first == FirstExact(records, tag)
    IN {i \in 0..(Len(records) - 1) : first + skip <= i /\ i < first + skip + ROWS_TO_KEEP}
Qualifying(records, tag, skip) ==
    {i \in WindowOf(records, tag, skip) : Len(records[i + 1]) >= COLS_TO_KEEP}

\* C6: every section file has at most ROWS_TO_KEEP rows of exactly
\* COLS_TO_KEEP cells; it holds as many rows as the window after the tag has
\* records of at least COLS_TO_KEEP columns (all ROWS_TO_KEEP of them, or
\* ROWS_TO_KEEP - 1, ...), and every row is the head of a record of the
\* window: the record after the window is never written.
C6_SectionShape ==
    \A name \in Entries : \A k \in 1..Len(MARKERS_AND_SKIPS) :
        LET f == section_files[out_path(name, MARKERS_AND_SKIPS[k].marker)]
            recs == Records(raw_files[name])
            tag == MARKERS_AND_SKIPS[k].marker
            skip == MARKERS_AND_SKIPS[k].skip
            qualifying == Qualifying(recs, tag, skip)
        IN f.exists =>
              /\ Len(f.lines) <= ROWS_TO_KEEP
              /\ \A r \in 1..Len(f.lines) : Len(f.lines[r]) = COLS_TO_KEEP
              /\ ExactAt(recs, tag) # {}
              /\ Len(f.lines) = Cardinality(qualifying)
              /\ \A r \in 1..Len(f.lines) :
                    \E i \in qualifying :
                        f.lines[r] = SubSeq(recs[i + 1], 1, COLS_TO_KEEP)

\* C6's case: a section written in full from a file that has one more row
\* of COLS_TO_KEEP columns right after the window
C6_Witness ==
    \E name \in Entries : \E k \in 1..Len(MARKERS_AND_SKIPS) :
        LET f == section_files[out_path(name, MARKERS_AND_SKIPS[k].marker)]
            recs == Records(raw_files[name])
            tag == MARKERS_AND_SKIPS[k].marker
            after == FirstExact(recs, tag) + MARKERS_AND_SKIPS[k].skip + ROWS_TO_KEEP
        IN /\ f.exists
           /\ Len(f.lines) = ROWS_TO_KEEP
           /\ after < Len(recs)
           /\ Len(recs[after + 1]) >= COLS_TO_KEEP

\* C7: find_marker_position finds the tag exactly when some record's first
\* cell, trimmed, is the tag, and returns the index of the first such record
\* in the numbering of the records that are then copied.
C7_MarkerIsExactFirstCell ==
    \A name \in Entries :
        x_pc[name] # "todo" =>
            LET recs == Records(raw_files[name])
            IN IF ExactAt(recs, MARKER) = {}
               THEN marker_pos[name] = 0 - 1
               ELSE marker_pos[name] = FirstExact(recs, MARKER)

\* C8: when a file has been processed, every tag has its own outcome,
\* whatever happened to the other tags and to the other files: a tag that
\* is not in the file is reported and has no section file; a tag that is
\* there has its section file, and is reported exactly when no row was
\* written for it. Nothing else is ever reported.
C8_ErrorsAreLocal ==
    /\ \A name \in Entries : \A k \in 1..Len(MARKERS_AND_SKIPS) :
          LET f == section_files[out_path(name, MARKERS_AND_SKIPS[k].marker)]
              recs == Records(raw_files[name])
              tag == MARKERS_AND_SKIPS[k].marker
              skip == MARKERS_AND_SKIPS[k].skip
          IN /\ s1_pc[name] = "ok" =>
                  IF ExactAt(recs, tag) = {}
                  THEN <<name, k>> \in skipped /\ ~f.exists
                  ELSE /\ f.exists
                       /\ <<name, k>> \in skipped <=> Qualifying(recs, tag, skip) = {}
                       /\ Len(f.lines) = Cardinality(Qualifying(recs, tag, skip))
             /\ <<name, k>> \in skipped =>
                  \/ ExactAt(recs, tag) = {}
                  \/ Qualifying(recs, tag, skip) = {}
    /\ \A path \in Paths :
          section_files[path].exists =>
              \E name \in Entries : \E k \in 1..Len(MARKERS_AND_SKIPS) :
                  path = out_path(name, MARKERS_AND_SKIPS[k].marker)

\* C8's case: a processed file one of whose tags was reported and a later
\* tag of which has its rows, beside a file with a reported tag of its own
C8_Witness ==
    \E name \in Entries : \E k1, k2 \in 1..Len(MARKERS_AND_SKIPS) :
        /\ s1_pc[name] = "ok"
        /\ k1 < k2
        /\ <<name, k1>> \in skipped
        /\ section_files[out_path(name, MARKERS_AND_SKIPS[k2].marker)].exists
        /\ Len(section_files[out_path(name, MARKERS_AND_SKIPS[k2].marker)].lines) > 0
        /\ \E other \in Entries \ {name} : \E k \in 1..Len(MARKERS_AND_SKIPS) :
              <<other, k>> \in skipped

\* C9: the counters count the files: failed_count the files whose
\* processing panicked, processed_count the files processed to their last
\* marker; when the directory is done they add up to the number of .csv
\* entries, whatever the interleaving of the workers.
C9_CountersAddUp ==
    /\ failed_count = Cardinality({name \in Entries : s1_pc[name] = "panic"})
    /\ processed_count = Cardinality({name \in Entries : s1_pc[name] = "ok"})
    /\ \A name \in Entries :
          s1_pc[name] = "ok" => next_marker[name] = Len(MARKERS_AND_SKIPS) + 1
    /\ DirectoryDone => processed_count + failed_count = Cardinality(Entries)

\* C9's case: the directory is done, one file panicked, the other was
\* processed to its end
C9_Witness ==
    /\ DirectoryDone
    /\ failed_count = 1
    /\ processed_count = 1
    /\ \E name \in Entries :
          s1_pc[name] = "ok" /\ next_marker[name] = Len(MARKERS_AND_SKIPS) + 1

---------------------------------------------------------------------------
(* Claims on csv_duplicate_fuzzy (SpecS2) *)

\* What the specification says of a name, read off the name itself
SequenceOf(name) == ParseDigits(FilterDigits(name[6]), 0)
KeyOf(name) == <<SubSeq(name, 1, 4), name[5]>>
ParsedNames ==
    {n \in Range(listing) : IsCsv(n) /\ Len(n) >= 6 /\ FilterDigits(n[6]) # <<>>}
MembersOf(key) == {n \in ParsedNames : KeyOf(n) = key}
RowsRemoving(name) ==
    {i \in 1..Len(duplicate_reports) : duplicate_reports[i].remove_file = name}

\* C10: once find_duplicates has returned, every (base_key, eye) group of
\* more than one parsed file has a keeper whose integer sequence is the
\* minimum of the group; every other member is named by exactly one report,
\* which keeps the keeper and whose reason holds both sequences and the eye;
\* the keeper is never removed and no report removes anything else; the
\* audit, once write_csv_report has returned Ok, holds exactly these rows
\* under the three column names; and when the run has completed, the
\* keeper is the only file of the group left on disk.
C10_KeeperIsMinimum ==
    s2_pc \in {"report", "remove", "unlink", "done", "err"} =>
        /\ \A key \in {KeyOf(n) : n \in ParsedNames} :
              LET M == MembersOf(key)
              IN Cardinality(M) > 1 =>
                    \E keeper \in M :
                        /\ \A m \in M : SequenceOf(keeper) <= SequenceOf(m)
                        /\ RowsRemoving(keeper) = {}
                        /\ \A m \in M \ {keeper} :
                              /\ Cardinality(RowsRemoving(m)) = 1
                              /\ \A i \in RowsRemoving(m) :
                                    /\ duplicate_reports[i].keep_file = keeper
                                    /\ duplicate_reports[i].reason =
                                          [keep |-> SequenceOf(keeper),
                                           remove |-> SequenceOf(m),
                                           eye |-> key[2]]
                        /\ s2_pc = "done" => M \cap disk = {keeper}
        /\ \A i \in 1..Len(duplicate_reports) :
              LET r == duplicate_reports[i]
              IN /\ r.remove_file \in ParsedNames
                 /\ r.keep_file \in MembersOf(KeyOf(r.remove_file))
                 /\ r.keep_file # r.remove_file
        /\ (s2_pc \in {"remove", "unlink", "done"} /\ duplicate_reports # <<>>) =>
              /\ audit.exists
              /\ audit.header = <<"Keep File", "Remove File", "Reason">>
              /\ audit.rows = duplicate_reports

\* A completed run over a group of three whose first listed member is not
\* the one of least sequence: two audit rows, the keeper alone on disk.
C10_Witness ==
    /\ s2_pc = "done"
    /\ Len(audit.rows) = 2
    /\ \E key \in {KeyOf(n) : n \in ParsedNames} :
          LET M == MembersOf(key)
              first == CHOOSE i \in 1..Len(listing) :
                          /\ listing[i] \in M
                          /\ \A j \in 1..(i - 1) : listing[j] \notin M
          IN /\ Cardinality(M) = 3
             /\ \E m \in M : SequenceOf(m) < SequenceOf(listing[first])
             /\ Cardinality(M \cap disk) = 1
             /\ \A m \in M : \A k \in M \cap disk : SequenceOf(k) <= SequenceOf(m)

\* C11: a .csv name of fewer than six underscore-separated fields, or whose
\* field 5 has no digit, is silently dropped: no report keeps or removes it,
\* it stays on disk, and the run does not panic.
Unparsable(name) == IsCsv(name) /\ (Len(name) < 6 \/ FilterDigits(name[6]) = <<>>)
C11_UnparsableDropped ==
    \A n \in Range(listing) :
        Unparsable(n) =>
            /\ s2_pc # "panic"
            /\ n \in disk
            /\ \A i \in 1..Len(duplicate_reports) :
                  /\ duplicate_reports[i].keep_file # n
                  /\ duplicate_reports[i].remove_file # n

\* C12: a file of the listing is gone from disk only when write_csv_report
\* has returned Ok and the audit, whole, names the file in its Remove File
\* column; in particular nothing is gone when writing the audit failed.
C12_AuditBeforeDelete ==
    \A n \in Range(listing) \ disk :
        /\ remove_idx >= 1
        /\ audit.exists
        /\ audit.header = <<"Keep File", "Remove File", "Reason">>
        /\ audit.rows = duplicate_reports
        /\ \E i \in 1..Len(audit.rows) : audit.rows[i].remove_file = n

\* remove_duplicate_files has removed a file the written audit names
C12_Witness ==
    /\ s2_pc \in {"remove", "done"}
    /\ remove_idx > 1
    /\ Range(listing) \ disk # {}
    /\ audit.rows = duplicate_reports

\* The place in the listing of the first parsed member of a group
FirstListed(key) ==
    CHOOSE i \in 1..Len(listing) :
        /\ listing[i] \in MembersOf(key)
        /\ \A j \in 1..(i - 1) : listing[j] \notin MembersOf(key)

\* C13: in the written audit the groups follow one another in the order in
\* which the listing enumerated their first members, and within a group the
\* removals are in ascending sequence.
C13_AuditInListingOrder ==
    remove_idx >= 1 =>
        \A i, j \in 1..Len(audit.rows) :
            i < j =>
                LET ki == KeyOf(audit.rows[i].remove_file)
                    kj == KeyOf(audit.rows[j].remove_file)
                IN IF ki = kj
                   THEN SequenceOf(audit.rows[i].remove_file)
                            <= SequenceOf(audit.rows[j].remove_file)
                   ELSE FirstListed(ki) < FirstListed(kj)

\* The first listed member of a group among those of least sequence
FirstLeast(key) ==
    LET M == MembersOf(key)
        i == CHOOSE i \in 1..Len(listing) :
                /\ listing[i] \in M
                /\ \A m \in M : SequenceOf(listing[i]) <= SequenceOf(m)
                /\ \A j \in 1..(i - 1) :
                      listing[j] \in M => SequenceOf(listing[j]) > SequenceOf(listing[i])
    IN listing[i]
KeptAndRemoved(names) ==
    {<<FirstLeast(KeyOf(n)), n>> : n \in {m \in names : FirstLeast(KeyOf(m)) # m}}

\* C14: the files kept and the files removed are a function of the listing
\* alone, ties included: whatever the run, the (keeper, removal) pairs
\* reported are those of the listing's parsed names, each group keeping the
\* first listed of its members of least sequence.
C14_KeeperByListingOrder ==
    s2_pc \in {"report", "remove", "unlink", "done", "err"} =>
        {<<duplicate_reports[i].keep_file, duplicate_reports[i].remove_file>> :
            i \in 1..Len(duplicate_reports)} = KeptAndRemoved(ParsedNames)

\* A completed run over a group whose two members of least sequence tie:
\* one of the two is left on disk, the other is gone
C14_Witness ==
    /\ s2_pc = "done"
    /\ \E m1, m2 \in ParsedNames :
          /\ m1 # m2
          /\ KeyOf(m1) = KeyOf(m2)
          /\ SequenceOf(m1) = SequenceOf(m2)
          /\ \A m \in MembersOf(KeyOf(m1)) : SequenceOf(m1) <= SequenceOf(m)
          /\ m1 \in disk
          /\ m2 \notin disk

\* C15: a removal target that is no longer there at deletion time is no
\* error: remove_duplicate_files fails only on a file that exists, the
\* targets behind a missing one are passed, and a run that completes leaves
\* no removal target on disk, having removed the ones that were still there.
C15_MissingTargetSkipped ==
    remove_idx >= 1 =>
        LET Target(i) == duplicate_reports[i].remove_file
        IN /\ s2_pc = "err" =>
                /\ Target(remove_idx) \in disk
                /\ removing[Len(removing)] = Target(remove_idx)
           /\ \A i \in 1..(remove_idx - 1) : Target(i) \notin disk
           /\ s2_pc = "done" => remove_idx = Len(duplicate_reports) + 1
           /\ \A k \in 1..Len(removing) : \E i \in 1..remove_idx :
                 i <= Len(duplicate_reports) /\ removing[k] = Target(i)

---------------------------------------------------------------------------
(* Claims on csv_filter and csv_to_8 (SpecFilter, SpecSplit) *)

\* The column under the header cell Radial_Index, and the data rows of an
\* input file, as the specification reads them
RadialColumn(lines) == CHOOSE c \in 1..Len(lines[1]) : lines[1][c] = <<"Radial_Index">>
HasRadialColumn(lines) == \E c \in 1..Len(lines[1]) : lines[1][c] = <<"Radial_Index">>
RowsWhere(lines, Wanted(_)) ==
    LET Test(row) == Len(row) >= RadialColumn(lines) /\ Wanted(row[RadialColumn(lines)])
    IN SelectSeq(Tail(lines), Test)

\* C16: the output of a file that csv_filter's process_file has filtered is
\* the input header followed by exactly the data rows whose Radial_Index
\* cell is one of the allowed strings, whole and in input order.
C16_FilterKeepsAllowedRows ==
    \A name \in S4Entries :
        filter_pc[name] = "ok" =>
            LET Allowed(cell) == cell \in allowed_values
            IN limited[name] =
                  File(<<in_files[name][1]>> \o RowsWhere(in_files[name], Allowed))

\* p.csv has been filtered: of its three data rows two were kept and one,
\* whose cell is no allowed string, was dropped
C16_Witness ==
    /\ filter_pc[<<"p", ".csv">>] = "ok"
    /\ Len(in_files[<<"p", ".csv">>]) = 4
    /\ Len(limited[<<"p", ".csv">>].lines) = 3

\* The data rows of a written file
DataOf(file) == IF Len(file.lines) = 0 THEN <<>> ELSE Tail(file.lines)

\* C17: for a file that csv_to_8's process_file has split, radial_<k>/<name>
\* is, for every target k, the header followed by exactly the input rows
\* whose Radial_Index cell parses to the integer k, in input order; an input
\* row is in one output when its cell parses to a target and in none
\* otherwise.
C17_SplitIsPartition ==
    \A name \in S4Entries :
        split_pc[name] = "ok" =>
            /\ \A k \in radial_indices :
                  LET ParsesTo(cell) == ParseI32(cell).ok /\ ParseI32(cell).value = k
                  IN radial[k][name] =
                        File(<<in_files[name][1]>> \o RowsWhere(in_files[name], ParsesTo))
            /\ \A i \in 2..Len(in_files[name]) :
                  LET row == in_files[name][i]
                      parsed == ParseI32(row[RadialColumn(in_files[name])])
                      Holding == {k \in radial_indices :
                                    row \in Range(DataOf(radial[k][name]))}
                  IN IF parsed.ok /\ parsed.value \in radial_indices
                     THEN Holding = {parsed.value}
                     ELSE Holding = {}

\* p.csv has been split: two of its rows, written differently, went to
\* radial_8, one to radial_1
C17_Witness ==
    /\ split_pc[<<"p", ".csv">>] = "ok"
    /\ Len(radial[8][<<"p", ".csv">>].lines) = 3
    /\ radial[8][<<"p", ".csv">>].lines[2][2] # radial[8][<<"p", ".csv">>].lines[3][2]
    /\ Len(radial[1][<<"p", ".csv">>].lines) = 2

\* C18: when csv_filter's main has ended and a file without a Radial_Index
\* column has failed, every other entry has been filtered all the same.
C18_MissingColumnIsLocal ==
    \A bad, other \in S4Entries :
        (/\ bad # other
         /\ ~HasRadialColumn(in_files[bad])
         /\ filter_pc[bad] = "err"
         /\ filter_main # "running") => filter_pc[other] # "todo"

---------------------------------------------------------------------------
(* Further claims about S3 (SpecS3) *)

\* The header the specification states, column by column
StatedParameters ==
    <<"Axial_Anterior", "Axial_Posterior", "Elevation_Anterior", "Elevation_Posterior",
      "Axial_Keratometric", "Height_Anterior", "Height_Posterior", "Pachymetry">>
StatedHeader ==
    <<Txt("Meridian_Index"), Txt("Radial_Index"), Txt("Meridian_Angle_Deg"),
      Txt("Meridian_Angle_Rad"), Txt("Normalized_Radius"), Txt("Transformed_Radius"),
      Txt("Cos_Theta"), Txt("Sin_Theta"), Txt("X_Coordinate"), Txt("Y_Coordinate"),
      Txt("Alpha_Angle")>>
    \o [c \in 1..16 |->
          IF c % 2 = 1 THEN ValueColumn(StatedParameters[(c + 1) \div 2])
          ELSE ScaledColumn(StatedParameters[c \div 2])]

\* The value the sample's files hold for a parameter at the cell of a row
CellOfRow(row) == (row[1].v - 1) * num_radials + (row[2].v - 1)
InputValue(name, row) == Fx(Flatten(param_files[name].lines, 1)[CellOfRow(row) + 1].v)

\* C19: the header is the 11 geometry columns and the eight Value, Scaled
\* pairs in the stated order; every data row has the same 27 fields, and
\* under <P>_Value stands the value of P at the row's own cell.
C19_ColumnsMatchHeader ==
    combined.exists =>
        /\ combined.lines[1] = StatedHeader
        /\ \A k \in 2..Len(combined.lines) :
              LET row == combined.lines[k]
              IN /\ Len(row) = 27
                 /\ \A p \in 1..8 :
                       row[11 + 2 * p - 1] = Num(InputValue(StatedParameters[p], row))

\* The combined file of a well-formed sample is complete
C19_Witness ==
    /\ pc = "done"
    /\ WellFormed(param_files)
    /\ Len(combined.lines) = GridSize + 1

\* C20: Alpha_Angle of every row is Pachymetry / (Height_Posterior -
\* Height_Anterior) of the row's own cell, and NaN exactly when the
\* difference is zero; the row with NaN is written like any other and the
\* sample is not rejected for it.
C20_AlphaOfOwnCell ==
    /\ combined.exists =>
          \A k \in 2..Len(combined.lines) :
              LET row == combined.lines[k]
                  diff == InputValue("Height_Posterior", row)
                          - InputValue("Height_Anterior", row)
              IN /\ row[11] = NaN <=> diff = 0
                 /\ diff # 0 => row[11] = Num(Div(InputValue("Pachymetry", row), diff))
    /\ (pc \in {"done", "err", "panic"} /\ WellFormed(param_files)) =>
          /\ pc = "done"
          /\ Len(combined.lines) = GridSize + 1

\* A complete combined file with a NaN Alpha_Angle in one row and a number
\* in another
C20_Witness ==
    /\ pc = "done"
    /\ \E k \in 2..Len(combined.lines) : combined.lines[k][11] = NaN
    /\ \E k \in 2..Len(combined.lines) :
          combined.lines[k][11] # NaN /\ combined.lines[k][11].v # 0

\* The values the sample's file holds for a parameter, as one flat vector
InputVector(name) ==
    LET cells == Flatten(param_files[name].lines, 1)
    IN [i \in 1..Len(cells) |-> Fx(cells[i].v)]
AllEqual(values) == \A i, j \in 1..Len(values) : values[i] = values[j]

\* C21: <P>_Scaled of every row is (value - mean) / std_dev with the mean and
\* the standard deviation calculate_stats found for the same parameter of the
\* same sample; it is never NaN, and it is 0 in every row of a parameter
\* whose standard deviation is not positive, as that of a parameter whose
\* values are all equal.
C21_ScaledIsStandardised ==
    combined.exists =>
        \A k \in 2..Len(combined.lines), p \in 1..8 :
            LET row == combined.lines[k]
                name == StatedParameters[p]
                stats == stats_map[p]
                flat == stats.std_dev <= 0 \/ AllEqual(InputVector(name))
            IN /\ row[11 + 2 * p] # NaN
               /\ flat => row[11 + 2 * p] = Num(0)
               /\ ~flat => row[11 + 2 * p]
                             = Num(Div(InputValue(name, row) - stats.mean, stats.std_dev))

\* The sum of the values, and of their squared deviations from a mean (the
\* squares in units of 1/Scale^2)
RECURSIVE SumOf(_, _)
SumOf(values, i) ==
    IF i > Len(values) THEN 0 ELSE values[i] + SumOf(values, i + 1)
RECURSIVE SquaredDeviations(_, _, _)
SquaredDeviations(values, mean, i) ==
    IF i > Len(values) THEN 0
    ELSE (values[i] - mean) * (values[i] - mean) + SquaredDeviations(values, mean, i + 1)
Near(a, b, tolerance) == a - b <= tolerance /\ b - a <= tolerance

\* C22: of a vector of N > 1 values calculate_stats returns the arithmetic
\* mean (within the rounding of N quotients) and the root of the sum of the
\* squared deviations divided by N - 1 (within the rounding of the root);
\* of a vector of one value it returns that value and a deviation of 0.
C22_SampleStatistics ==
    stats_map # <<>> =>
        \A p \in 1..8 :
            LET values == parameters[p]
                N == Len(values)
                stats == stats_map[p]
            IN /\ N > 1 =>
                    /\ Near(stats.mean, SumOf(values, 1) \div N, N)
                    /\ Near(stats.std_dev,
                            Sqrt(SquaredDeviations(values, stats.mean, 1) \div (N - 1)), 2)
               /\ N = 1 => stats.mean = values[1] /\ stats.std_dev = 0

\* The statistics of a sample with a parameter of one value beside parameters
\* of GridSize values that differ
C22_Witness ==
    /\ stats_map # <<>>
    /\ \E p \in 1..8 : Len(parameters[p]) = 1 /\ stats_map[p].mean > 0
    /\ \E p \in 1..8 : Len(parameters[p]) = GridSize /\ stats_map[p].std_dev > Scale


\* The element of a parameter's flat vector, as read, at a 0-based index
ElementOf(name, index) == parameters[ParamIndex(name)][index + 1]

\* C27: in the row of meridian m and radial r (1-based) the value of every
\* one of the eight parameters is element (m - 1) * num_radials + (r - 1)
\* of that parameter's flat vector, and Alpha_Angle is formed from the
\* elements of Pachymetry, Height_Posterior and Height_Anterior at that
\* same index.
C27_SameFlatIndexForAll ==
    combined.exists =>
        \A k \in 2..Len(combined.lines) :
            LET row == combined.lines[k]
                index == (row[1].v - 1) * num_radials + (row[2].v - 1)
                height_diff == ElementOf("Height_Posterior", index)
                               - ElementOf("Height_Anterior", index)
            IN /\ \A p \in 1..8 :
                     row[10 + 2 * p] = Num(ElementOf(StatedParameters[p], index))
               /\ row[11] = IF height_diff = 0 THEN NaN
                            ELSE Num(Div(ElementOf("Pachymetry", index), height_diff))

\* A complete file whose last row holds, for a parameter that differs from
\* cell to cell, the last element of the grid and not the first
C27_Witness ==
    /\ pc = "done"
    /\ Len(combined.lines) = GridSize + 1
    /\ combined.lines[GridSize + 1][1] = Num(num_meridians)
    /\ combined.lines[GridSize + 1][2] = Num(num_radials)
    /\ combined.lines[GridSize + 1][12] = Num(ElementOf("Axial_Anterior", GridSize - 1))
    /\ ElementOf("Axial_Anterior", GridSize - 1) # ElementOf("Axial_Anterior", 0)

---------------------------------------------------------------------------
(* Further claims about S1 (SpecS1, SpecX) *)

\* C23: in a second run over the same raw directory the inputs are the .csv
\* files of the raw directory and nothing from under processed_data, and
\* every section file has, whenever the second run has written it or not
\* yet, the content the first run left.
C23_SecondRunChangesNothing ==
    run = 2 =>
        /\ DOMAIN s1_pc = {name \in Dir : Extension(name) = ".csv"}
        /\ \A path \in Paths : section_files[path] = first_run[path]

\* A second run that has processed every file, over a directory in which
\* the first run left section files with rows
C23_Witness ==
    /\ run = 2
    /\ \A name \in DOMAIN s1_pc : s1_pc[name] = "ok"
    /\ \E path \in Paths : first_run[path].exists /\ first_run[path].lines # <<>>
    /\ \E path \in Paths : <<output_dir, path[1], path[2]>> \in Tree(first_run)


\* The records of a file with the 0-based indices from `from` up to, not
\* including, `to`, in input order
Slice(records, from, to) ==
    SubSeq(records, from + 1, IF to < Len(records) THEN to ELSE Len(records))
IsWide(record) == Len(record) >= COLS_TO_KEEP
Heads(records) == [r \in 1..Len(records) |-> SubSeq(records[r], 1, COLS_TO_KEEP)]

\* C26: the rows of a section file are, in input order, the first
\* COLS_TO_KEEP cells of exactly the records with index i, m + skip <= i <
\* m + skip + ROWS_TO_KEEP (m the index of the tag's record), that have at
\* least COLS_TO_KEEP cells; a shorter record of the window leaves its place
\* empty and no record from beyond the window takes it.
C26_RowsOfTheWindowInOrder ==
    \A name \in Entries : \A k \in 1..Len(MARKERS_AND_SKIPS) :
        LET f == section_files[out_path(name, MARKERS_AND_SKIPS[k].marker)]
            recs == Records(raw_files[name])
            m == FirstExact(recs, MARKERS_AND_SKIPS[k].marker)
            skip == MARKERS_AND_SKIPS[k].skip
        IN f.exists =>
              f.lines = Heads(SelectSeq(Slice(recs, m + skip, m + skip + ROWS_TO_KEEP),
                                        IsWide))

\* A section written from a window whose first record is short, with a
\* record of COLS_TO_KEEP cells right after the window: the file has one row
\* fewer than ROWS_TO_KEEP
C26_Witness ==
    \E name \in Entries : \E k \in 1..Len(MARKERS_AND_SKIPS) :
        LET f == section_files[out_path(name, MARKERS_AND_SKIPS[k].marker)]
            recs == Records(raw_files[name])
            from == FirstExact(recs, MARKERS_AND_SKIPS[k].marker) + MARKERS_AND_SKIPS[k].skip
        IN /\ f.exists
           /\ from + ROWS_TO_KEEP < Len(recs)
           /\ ~IsWide(recs[from + 1])
           /\ IsWide(recs[from + ROWS_TO_KEEP + 1])
           /\ Len(f.lines) = ROWS_TO_KEEP - 1


\* C28: extract_csv_data writes only records with index i, start <= i < end,
\* where start is the index the marker was found at plus ROWS_TO_SKIP and
\* end = start + ROWS_TO_KEEP: the rows of the output are the first
\* COLS_TO_KEEP cells of the records of that window that have at least
\* COLS_TO_KEEP cells, a shorter record using up its index like any other.
C28_ShortRowUsesItsIndex ==
    \A name \in Entries :
        (x_pc[name] # "todo" /\ conv_files[name].exists) =>
            LET start == marker_pos[name] + ROWS_TO_SKIP
            IN conv_files[name].lines
                 = Heads(SelectSeq(Slice(Records(raw_files[name]), start,
                                         start + ROWS_TO_KEEP), IsWide))

---------------------------------------------------------------------------
(* Further claims about csv_filter (SpecFilter) *)

\* C24: process_file applied to a file that a filter run has written leaves
\* an output equal to that file.
C24_FilterIsIdempotent ==
    \A name \in S4Entries :
        limited[name].exists =>
            filter_process_file(limited[name].lines).out = limited[name]

\* q.csv has been filtered, and its output holds the header and fewer data
\* rows than the input, one at least
C24_Witness ==
    /\ filter_pc[<<"q", ".csv">>] = "ok"
    /\ Len(limited[<<"q", ".csv">>].lines) > 1
    /\ Len(limited[<<"q", ".csv">>].lines) < Len(in_files[<<"q", ".csv">>])
    /\ filter_process_file(limited[<<"q", ".csv">>].lines).ok

---------------------------------------------------------------------------
(* Claims about library_manager's Book (SpecBook) *)

\* C25: a call of borrow returns Ok exactly when the book is not borrowed
\* at the call; a call that returns Err leaves is_borrowed and borrow_count
\* as they were; return_book does not change borrow_count; and borrow_count
\* is the number of the calls of borrow that have returned Ok.
C25_BorrowCountsSuccesses ==
    /\ [](book.borrow_count = successful_borrows)
    /\ [][ /\ last_call'.op = "borrow" =>
                /\ last_call'.ok <=> ~book.is_borrowed
                /\ ~last_call'.ok => book' = book
           /\ last_call'.op = "return_book" => book'.borrow_count = book.borrow_count
         ]_vars

\* A borrow has failed on a book borrowed for the third time, after two
\* returns
C25_Witness ==
    /\ last_call = [op |-> "borrow", ok |-> FALSE]
    /\ book.is_borrowed
    /\ book.borrow_count = 3

---------------------------------------------------------------------------
(* Further claims about csv_duplicate_fuzzy (SpecS2) *)

\* The names under Keep File and under Remove File, in the reports and in
\* the audit, and the files that are gone or that the program has set out
\* to remove
NamedKeep ==
    {duplicate_reports[i].keep_file : i \in 1..Len(duplicate_reports)}
    \cup {audit.rows[i].keep_file : i \in 1..Len(audit.rows)}
NamedRemove ==
    {duplicate_reports[i].remove_file : i \in 1..Len(duplicate_reports)}
    \cup {audit.rows[i].remove_file : i \in 1..Len(audit.rows)}
Deleted == (Range(listing) \ disk) \cup Range(removing)
AloneInGroup(name) == name \in ParsedNames /\ MembersOf(KeyOf(name)) = {name}

\* C29: a file named under Keep File is never named under Remove File and
\* never deleted; a file alone in its group, a .csv file whose name does not
\* parse and a file that is no .csv are never named under Remove File and
\* never deleted.
C29_OnlyDuplicatesRemoved ==
    /\ NamedKeep \cap (NamedRemove \cup Deleted) = {}
    /\ \A name \in Range(listing) :
          (AloneInGroup(name) \/ Unparsable(name) \/ ~IsCsv(name)) =>
              name \notin NamedRemove \cup Deleted

\* A completed run that has removed a duplicate from a directory which also
\* holds a file alone in its group and a file that is unparseable or no .csv
C29_Witness ==
    /\ s2_pc = "done"
    /\ removing # <<>>
    /\ NamedKeep # {}
    /\ \E name \in Range(listing) : AloneInGroup(name)
    /\ \E name \in Range(listing) : Unparsable(name) \/ ~IsCsv(name)

---------------------------------------------------------------------------
(* Claims about the parallel units of work (SpecS1) *)

\* The section file the unit of a raw file writes for marker number k, and
\* what process_csv_for_marker writes into it
SectionPath(name, k) == out_path(name, MARKERS_AND_SKIPS[k].marker)
OwnSection(name, k) ==
    File(process_csv_for_marker(raw_files[name], MARKERS_AND_SKIPS[k].marker,
                                MARKERS_AND_SKIPS[k].skip).rows)

\* the paths of different units of work differ, in each of the three programs
SectionPathsDiffer ==
    \A n1, n2 \in Entries : \A k1, k2 \in 1..Len(MARKERS_AND_SKIPS) :
        SectionPath(n1, k1) = SectionPath(n2, k2) => n1 = n2 /\ k1 = k2
CombinedPathsDiffer ==
    \A id1, id2 \in patient_ids : output_path(id1) = output_path(id2) => id1 = id2
RadialPathsDiffer ==
    \A n1, n2 \in S4Entries : OutputName(n1) = OutputName(n2) => n1 = n2

\* C30: the units that run in parallel write different paths: two raw files
\* never share a section file of any tag, two patient ids never share a
\* combined file, two input files of the split never share a file of a
\* radial_<k> directory; and under every interleaving of the extractor's
\* workers a section file holds what its own raw file's unit wrote, and
\* nothing before that unit has reached the tag.
C30_UnitsWriteDistinctPaths ==
    /\ SectionPathsDiffer
    /\ CombinedPathsDiffer
    /\ RadialPathsDiffer
    /\ \A name \in Entries : \A k \in 1..Len(MARKERS_AND_SKIPS) :
          LET f == section_files[SectionPath(name, k)]
          IN /\ f.exists => f = OwnSection(name, k)
             /\ (run = 1 /\ next_marker[name] <= k) => ~f.exists

\* Both workers are running and each has written its section of the same
\* tag; the two files hold different rows
C30_Witness ==
    /\ \A name \in Entries : s1_pc[name] = "running"
    /\ \E k \in 1..Len(MARKERS_AND_SKIPS) :
          /\ \A name \in Entries : section_files[SectionPath(name, k)].exists
          /\ \E n1, n2 \in Entries :
                 section_files[SectionPath(n1, k)] # section_files[SectionPath(n2, k)]

===========================================================================
